---------------------------- MODULE Spec2Model ----------------------------
(***************************************************************************)
(* Model of the 3-2-1 newsletter search.                                   *)
(* The search side, specification Spec:                                    *)
(*   - search_newsletter (src/mcp_server.py), the MCP tool;                *)
(*   - perform_search    (src/app.py), the Streamlit search.               *)
(* The chunker, specification ChunkerSpec:                                 *)
(*   - parse_newsletter  (src/pipeline/utils.py), one call, with the loop  *)
(*     over the sections taken one turn at a time.                         *)
(* The offline pipeline, specification PipelineSpec:                       *)
(*   - text_chunks_for_embedding (src/pipeline/embeddings_assets.py);      *)
(*   - encoded_vectors   (src/pipeline/encode_assets.py).                  *)
(* The index upload, specification StoreSpec:                              *)
(*   - stored_vectors    (src/pipeline/store_assets.py).                   *)
(* The download, specification FetcherSpec:                                *)
(*   - downloaded_html_files (src/pipeline/download_assets.py);            *)
(*   - download_and_save (src/pipeline/utils.py).                          *)
(* The chat agent, specification AgentSpec:                                *)
(*   - MCPAgent          (src/chat.py).                                    *)
(* The embedding model, the vector index and the cross-encoder are black   *)
(* boxes: each call either fails (raises) or yields a value drawn from a   *)
(* small set.  A Python str is a sequence of one-character strings, so     *)
(* that datetime.strptime is a parser over characters.  An Optional value  *)
(* is None (the empty tuple) or Some(v) (the one-element tuple <<v>>).     *)
(* Rerank scores are integers in units of 0.00001.                         *)
(***************************************************************************)
EXTENDS Integers, Sequences, FiniteSets, TLC

VARIABLES
    parquet_exists,    \* os.path.exists(PARQUET_PATH) when the process started
    pc,                \* position of the call being served
    query,             \* argument: the query text
    from_date,         \* argument: Optional[str]
    to_date,           \* argument: Optional[str]
    min_score_given,   \* whether the caller passed min_score
    min_score,         \* argument (its default when omitted)
    limit_given,       \* whether the caller passed limit
    limit,             \* argument (its default when omitted)
    from_datetime,     \* local: Optional[datetime]
    to_datetime,       \* local: Optional[datetime]
    calls,             \* black-box calls made so far during this call
    hits,              \* local: the points returned by the index
    cross_scores,      \* local: the reranker's scores, one per hit
    reranked_results,  \* local: the (hit, score) pairs after sorting
    filtered_results,  \* local: the (hit, score) pairs accepted by the loop
    ret,               \* the value returned to the caller
    parse_pc,          \* position of the call of parse_newsletter
    md_text,           \* argument of parse_newsletter: the issue body
    issue_date,        \* argument of parse_newsletter
    sections,          \* local: the pieces of the body around "## "
    section_no,        \* how many sections the loop has been through
    chunks,            \* local: the chunks appended so far, then returned
    parquet_rows,      \* newsletter_embeddings.parquet: None or Some(rows)
    markdown_files,    \* argument of the latest text_chunks_for_embedding
    builder_pc,        \* how the latest text_chunks_for_embedding run ended
    vectorizer_pc,     \* position of the encoded_vectors run
    df,                \* local of encoded_vectors: the rows read
    store_pc,          \* position of the stored_vectors run
    store_df,          \* local of stored_vectors: the rows read
    collection,        \* the index collection: None or Some(points)
    fetch_pc,          \* position of the downloaded_html_files run
    raw_html,          \* the files of RAW_HTML_DIR: path to content
    new_newsletter_urls,  \* argument of downloaded_html_files
    url_no,            \* how many urls the loop has been through
    downloaded_count,  \* local of downloaded_html_files
    skipped_count,     \* local of downloaded_html_files
    response,          \* local of download_and_save: None or Some(text)
    fetched,           \* what download_and_save returned: None or Some
    io,                \* requests and sleeps made so far during the run
    agent_pc,          \* position of the call of MCPAgent.__call__
    session,           \* self.session: None or Some(session)
    messages,          \* self.messages
    tool_call,         \* local of __call__: None or Some(tool call)
    answer             \* what __call__ returned: None or Some(text)

vars == <<parquet_exists, pc, query, from_date, to_date, min_score_given,
          min_score, limit_given, limit, from_datetime, to_datetime, calls,
          hits, cross_scores, reranked_results, filtered_results, ret,
          parse_pc, md_text, issue_date, sections, section_no, chunks,
          parquet_rows, markdown_files, builder_pc, vectorizer_pc, df,
          store_pc, store_df, collection,
          fetch_pc, raw_html, new_newsletter_urls, url_no, downloaded_count,
          skipped_count, response, fetched, io,
          agent_pc, session, messages, tool_call, answer>>

\* the variables of the pipeline and of the chat agent, which no search
\* touches
chunker == <<parse_pc, md_text, issue_date, sections, section_no, chunks>>
pipeline == <<parquet_rows, markdown_files, builder_pc, vectorizer_pc, df>>
store == <<store_pc, store_df, collection>>
fetcher == <<fetch_pc, raw_html, new_newsletter_urls, url_no,
             downloaded_count, skipped_count, response, fetched, io>>
agent == <<agent_pc, session, messages, tool_call, answer>>
outer == <<store, fetcher, agent>>
offline == <<chunker, pipeline, outer>>

-----------------------------------------------------------------------------
(* Bounds of the model *)

\* the largest number of points the index returns for a query
MaxHits == 3

-----------------------------------------------------------------------------
(* Python values *)

None == <<>>
Some(v) == <<v>>
ValueOf(o) == o[1]

\* Python truthiness of an Optional[str]: None and "" are falsy
Truthy(o) == o # None /\ ValueOf(o) # <<>>

\* str(x) for an Optional[str] payload value
StrOf(o) == IF o = None THEN <<"N", "o", "n", "e">> ELSE ValueOf(o)

\* the decimal digits and their values
DigitChars ==
    "0" :> 0 @@ "1" :> 1 @@ "2" :> 2 @@ "3" :> 3 @@ "4" :> 4 @@
    "5" :> 5 @@ "6" :> 6 @@ "7" :> 7 @@ "8" :> 8 @@ "9" :> 9
IsDigit(c) == c \in DOMAIN DigitChars
DigitValue(c) == DigitChars[c]
InRange(c, lo, hi) == IsDigit(c) /\ DigitValue(c) >= lo /\ DigitValue(c) <= hi

IsLeap(y) == (y % 4 = 0 /\ y % 100 # 0) \/ y % 400 = 0
DaysInMonth(y, m) ==
    IF m = 2 THEN (IF IsLeap(y) THEN 29 ELSE 28)
    ELSE IF m \in {4, 6, 9, 11} THEN 30 ELSE 31

\* the result of a failed parse (ValueError) and of a successful one
ValueError == [ok |-> FALSE, date |-> <<>>]
Parsed(y, m, d) == [ok |-> TRUE, date |-> <<y, m, d>>]

\* The length of the text the directive %m matches at position p of s when a
\* "-" follows it, 0 when there is none: 1[0-2] | 0[1-9] | [1-9].
MonthLen(s, p) ==
    LET n == Len(s)
        two == /\ n >= p + 2
               /\ \/ s[p] = "1" /\ InRange(s[p + 1], 0, 2)
                  \/ s[p] = "0" /\ InRange(s[p + 1], 1, 9)
               /\ s[p + 2] = "-"
        one == n >= p + 1 /\ InRange(s[p], 1, 9) /\ s[p + 1] = "-"
    IN  IF two THEN 2 ELSE IF one THEN 1 ELSE 0

\* The length of the text the directive %d matches at position p of s, 0
\* when there is none: 3[0-1] | [1-2]\d | 0[1-9] | [1-9] | " "[1-9], the
\* first alternative that matches (nothing follows %d in the format).
DayLen(s, p) ==
    LET n == Len(s)
        two == /\ n >= p + 1
               /\ \/ s[p] = "3" /\ InRange(s[p + 1], 0, 1)
                  \/ InRange(s[p], 1, 2) /\ IsDigit(s[p + 1])
                  \/ s[p] = "0" /\ InRange(s[p + 1], 1, 9)
        one == n >= p /\ InRange(s[p], 1, 9)
        pad == n >= p + 1 /\ s[p] = " " /\ InRange(s[p + 1], 1, 9)
    IN  IF two THEN 2 ELSE IF one THEN 1 ELSE IF pad THEN 2 ELSE 0

\* int() of the digits (and blanks) of s[p .. p+k-1]
RECURSIVE IntOf(_, _, _)
IntOf(s, p, k) ==
    IF k = 0 THEN 0
    ELSE LET c == s[p + k - 1]
         IN  IF IsDigit(c) THEN 10 * IntOf(s, p, k - 1) + DigitValue(c)
             ELSE IntOf(s, p, k - 1)

\* datetime.strptime(s, "%Y-%m-%d"): the format's regular expression is
\* matched at the start of s, text left over is an error, and so is a
\* year, month, day that is no date of the calendar.
Strptime(s) ==
    LET n == Len(s)
        yearOk == n >= 5 /\ (\A i \in 1..4 : IsDigit(s[i])) /\ s[5] = "-"
        mLen == IF yearOk THEN MonthLen(s, 6) ELSE 0
        dLen == IF mLen > 0 THEN DayLen(s, 7 + mLen) ELSE 0
    IN  IF ~yearOk \/ mLen = 0 \/ dLen = 0 THEN ValueError
        ELSE IF 6 + mLen + dLen # n THEN ValueError
        ELSE LET y == IntOf(s, 1, 4)
                 m == IntOf(s, 6, mLen)
                 d == IntOf(s, 7 + mLen, dLen)
             IN  IF y < 1 \/ d > DaysInMonth(y, m) THEN ValueError
                 ELSE Parsed(y, m, d)

\* a < b for two datetimes (midnight of <<y, m, d>>)
DateLess(a, b) ==
    \/ a[1] < b[1]
    \/ a[1] = b[1] /\ a[2] < b[2]
    \/ a[1] = b[1] /\ a[2] = b[2] /\ a[3] < b[3]


-----------------------------------------------------------------------------
(* The inputs the model draws from *)

S_empty == <<>>
S_13_45_2020 == <<"1", "3", "-", "4", "5", "-", "2", "0", "2", "0">>
S_2020_02_30 == <<"2", "0", "2", "0", "-", "0", "2", "-", "3", "0">>
S_2020_01_05 == <<"2", "0", "2", "0", "-", "0", "1", "-", "0", "5">>
S_2020_1_6 == <<"2", "0", "2", "0", "-", "1", "-", "6">>
S_2020_01_06 == <<"2", "0", "2", "0", "-", "0", "1", "-", "0", "6">>
S_na == <<"n", "/", "a">>

\* values a caller passes as from_date and as to_date
FromDateArgs == {None, Some(S_empty), Some(S_13_45_2020), Some(S_2020_1_6)}
ToDateArgs == {None, Some(S_empty), Some(S_2020_02_30), Some(S_2020_01_05)}

\* values of the "date" field of a stored payload
PayloadDates == {None, Some(S_na), Some(S_2020_01_05), Some(S_2020_01_06)}

\* values the cross-encoder returns (logits, in units of 0.00001)
Scores == {-10000, 50000, 90004}

\* values a caller passes as min_score and as limit
MinScoreArgs == {50000}
LimitArgs == {0, 1, 2}

Queries == {"q"}

-----------------------------------------------------------------------------
(* Program constants *)

\* search_newsletter's default for min_score (0.0)
DefaultMinScore == 0
\* search_newsletter's default for limit
DefaultLimit == 10
\* the number of points search_newsletter asks the index for
QueryLimit == 50
\* the number of points perform_search asks the index for
AppQueryLimit == 20

-----------------------------------------------------------------------------
(* The pure steps of search_newsletter *)

\* round(float(score), 4), the score in units of 0.00001
Round4(score) ==
    LET r == score % 10
        down == score - r
    IN  IF r < 5 THEN down
        ELSE IF r > 5 THEN down + 10
        ELSE IF (down \div 10) % 2 = 0 THEN down ELSE down + 10

\* the similarity the index reports for the hit of rank i (descending)
InitialScore(i) == 100 - i

\* The points the index returns: n payloads, in descending similarity.
HitsOf(n, dates) ==
    [i \in 1..n |-> [text |-> i, date |-> dates[i], score |-> InitialScore(i)]]

\* the value of an error return
ErrorResponse(msg) == [error |-> msg]

\* the "filters" echoed in a response
Filters(fd, td, ms) == [from_date |-> fd, to_date |-> td, min_score |-> ms]

\* the return of "if not hits:"
NoHitsResponse(q, fd, td, ms) ==
    [query |-> q, filters |-> Filters(fd, td, ms), total_results |-> 0,
     results |-> <<>>]

\* the return of "if not filtered_results:"
NoFilteredResponse(q, fd, td, ms) ==
    [query |-> q, filters |-> Filters(fd, td, ms), total_results |-> 0,
     results |-> <<>>]

\* list(zip(hits, cross_scores))
Zip(hs, cs) == [i \in 1..Len(hs) |-> [hit |-> hs[i], score |-> cs[i]]]

\* s with e put after every element whose score is >= e's
RECURSIVE InsertDesc(_, _)
InsertDesc(s, e) ==
    IF s = <<>> THEN <<e>>
    ELSE IF Head(s).score >= e.score THEN <<Head(s)>> \o InsertDesc(Tail(s), e)
    ELSE <<e>> \o s

\* s with e put before every element whose score is <= e's
RECURSIVE InsertDescFront(_, _)
InsertDescFront(s, e) ==
    IF s = <<>> THEN <<e>>
    ELSE IF Head(s).score > e.score THEN <<Head(s)>> \o InsertDescFront(Tail(s), e)
    ELSE <<e>> \o s

RECURSIVE SortFrom(_, _)
SortFrom(acc, rest) ==
    IF rest = <<>> THEN acc ELSE SortFrom(InsertDesc(acc, Head(rest)), Tail(rest))

RECURSIVE ReversingSortFrom(_, _)
ReversingSortFrom(acc, rest) ==
    IF rest = <<>> THEN acc
    ELSE ReversingSortFrom(InsertDescFront(acc, Head(rest)), Tail(rest))

\* a descending sort that reverses the order of equal scores
\* (sorted(pairs, key=score)[::-1])
SortedReversingTies(pairs) == ReversingSortFrom(<<>>, pairs)

\* sorted(pairs, key=lambda x: x[1], reverse=True): descending by score,
\* pairs of equal score in their original order
SortedByScore(pairs) == SortFrom(<<>>, pairs)

\* "if score <= min_score: continue"
ScoreRejectedInclusive(score, ms) == score <= ms

\* "if score < min_score: continue"
ScoreRejected(score, ms) == score < ms

\* the date filter with an unparseable date dropped
DateRejectedStrict(date_str, fdt, tdt) ==
    /\ Truthy(date_str)
    /\ LET r == Strptime(ValueOf(date_str))
       IN  \/ ~r.ok /\ (fdt # None \/ tdt # None)
           \/ r.ok /\ fdt # None /\ DateLess(r.date, ValueOf(fdt))
           \/ r.ok /\ tdt # None /\ DateLess(ValueOf(tdt), r.date)

\* the date filter with exclusive bounds
DateRejectedExclusive(date_str, fdt, tdt) ==
    /\ Truthy(date_str)
    /\ LET r == Strptime(ValueOf(date_str))
       IN  /\ r.ok
           /\ \/ fdt # None /\ ~DateLess(ValueOf(fdt), r.date)
              \/ tdt # None /\ ~DateLess(r.date, ValueOf(tdt))

\* The date filter of the loop: whether the "continue" of the date block is
\* taken for a payload date, given the parsed bounds.
DateRejected(date_str, fdt, tdt) ==
    /\ Truthy(date_str)
    /\ LET r == Strptime(ValueOf(date_str))
       IN  /\ r.ok
           /\ \/ fdt # None /\ DateLess(r.date, ValueOf(fdt))
              \/ tdt # None /\ DateLess(ValueOf(tdt), r.date)

\* "if len(filtered_results) > limit: break"
LimitReachedLate(n, lim) == n > lim

\* "if len(filtered_results) >= limit: break"
LimitReached(n, lim) == n >= lim

\* The filter loop from position i of the sorted pairs rr, acc being
\* filtered_results so far.
RECURSIVE FilterLoop(_, _, _, _, _, _, _)
FilterLoop(rr, i, acc, ms, fdt, tdt, lim) ==
    IF i > Len(rr) THEN acc
    ELSE IF ScoreRejected(rr[i].score, ms)
         THEN FilterLoop(rr, i + 1, acc, ms, fdt, tdt, lim)
    ELSE IF DateRejected(rr[i].hit.date, fdt, tdt)
         THEN FilterLoop(rr, i + 1, acc, ms, fdt, tdt, lim)
    ELSE LET acc2 == Append(acc, rr[i])
         IN  IF LimitReached(Len(acc2), lim) THEN acc2
             ELSE FilterLoop(rr, i + 1, acc2, ms, fdt, tdt, lim)

\* one entry of "results" (title, category and url are copied from the
\* payload like text, which stands for them)
ResultOf(pair) ==
    [text |-> pair.hit.text, date |-> StrOf(pair.hit.date),
     score |-> Round4(pair.score)]

BuildResults(fr) == [i \in 1..Len(fr) |-> ResultOf(fr[i])]

\* the final return
SearchResponse(q, fd, td, ms, fr) ==
    [query |-> q, filters |-> Filters(fd, td, ms),
     total_results |-> Len(BuildResults(fr)), results |-> BuildResults(fr)]

\* the min_score in effect with the default far below every score
EffectiveMinScoreLow(given, v) == IF given THEN v ELSE 0 - 1000000

\* the min_score in effect for a call
EffectiveMinScore(given, v) == IF given THEN v ELSE DefaultMinScore

\* the limit in effect for a call
EffectiveLimit(given, v) == IF given THEN v ELSE DefaultLimit

-----------------------------------------------------------------------------
(* State *)

\* the value of ret while no call has returned
NoValue == [pending |-> TRUE]
\* Python's None as a return value of perform_search
PyNone == [none |-> TRUE]
\* a list as a return value of perform_search
PyList(l) == [list |-> l]

\* parse_newsletter is not being run
ChunkerIdle ==
    /\ parse_pc = "idle"
    /\ md_text = <<>>
    /\ issue_date = <<>>
    /\ sections = <<>>
    /\ section_no = 0
    /\ chunks = <<>>

\* no asset has been materialized and none is being run
PipelineIdle ==
    /\ parquet_rows = None
    /\ markdown_files = <<>>
    /\ builder_pc = "idle"
    /\ vectorizer_pc = "idle"
    /\ df = <<>>

\* stored_vectors has never run: there is no collection
StoreIdle ==
    /\ store_pc = "idle"
    /\ store_df = <<>>
    /\ collection = None

\* downloaded_html_files has never run: the directory has no file
FetcherIdle ==
    /\ fetch_pc = "idle"
    /\ raw_html = <<>>
    /\ new_newsletter_urls = <<>>
    /\ url_no = 0
    /\ downloaded_count = 0
    /\ skipped_count = 0
    /\ response = None
    /\ fetched = None
    /\ io = <<>>

\* MCPAgent.__init__ has run: no session, no message
AgentIdle ==
    /\ agent_pc = "idle"
    /\ session = None
    /\ messages = <<>>
    /\ tool_call = None
    /\ answer = None

\* nothing beside the chunker and the two table assets is being run
OuterIdle == StoreIdle /\ FetcherIdle /\ AgentIdle

\* nothing of the offline pipeline is being run
OfflineIdle == ChunkerIdle /\ PipelineIdle /\ OuterIdle

\* the process has started: no call is being served
Init ==
    /\ parquet_exists \in BOOLEAN
    /\ OfflineIdle
    /\ pc = "idle"
    /\ query = "q"
    /\ from_date = None
    /\ to_date = None
    /\ min_score_given = FALSE
    /\ min_score = DefaultMinScore
    /\ limit_given = FALSE
    /\ limit = DefaultLimit
    /\ from_datetime = None
    /\ to_datetime = None
    /\ calls = {}
    /\ hits = <<>>
    /\ cross_scores = <<>>
    /\ reranked_results = <<>>
    /\ filtered_results = <<>>
    /\ ret = NoValue

args == <<query, from_date, to_date, min_score_given, min_score, limit_given,
          limit>>
locals == <<from_datetime, to_datetime, hits, cross_scores, reranked_results,
            filtered_results>>

-----------------------------------------------------------------------------
(* search_newsletter, src/mcp_server.py *)

\* A client calls the tool.  The server serves calls only once
\* server_lifespan has completed, which needs the parquet file.
SearchCall ==
    /\ pc = "idle"
    /\ parquet_exists
    /\ \E q \in Queries, fd \in FromDateArgs, td \in ToDateArgs,
          mg \in BOOLEAN, lg \in BOOLEAN, mv \in MinScoreArgs, lv \in LimitArgs :
          /\ query' = q
          /\ from_date' = fd
          /\ to_date' = td
          /\ min_score_given' = mg
          /\ min_score' = EffectiveMinScore(mg, mv)
          /\ limit_given' = lg
          /\ limit' = EffectiveLimit(lg, lv)
    /\ pc' = "parse_dates"
    /\ UNCHANGED <<parquet_exists, offline, locals, calls, ret>>

\* "if from_date:" / "if to_date:" with their try blocks
ParseDates ==
    /\ pc = "parse_dates"
    /\ LET f == IF Truthy(from_date) THEN Strptime(ValueOf(from_date)) ELSE ValueError
           t == IF Truthy(to_date) THEN Strptime(ValueOf(to_date)) ELSE ValueError
       IN  IF Truthy(from_date) /\ ~f.ok
           THEN /\ ret' = ErrorResponse("Invalid from_date format")
                /\ pc' = "returned"
                /\ UNCHANGED <<from_datetime, to_datetime>>
           ELSE IF Truthy(to_date) /\ ~t.ok
           THEN /\ ret' = ErrorResponse("Invalid to_date format")
                /\ pc' = "returned"
                /\ from_datetime' = (IF Truthy(from_date) THEN Some(f.date) ELSE None)
                /\ UNCHANGED to_datetime
           ELSE /\ from_datetime' = (IF Truthy(from_date) THEN Some(f.date) ELSE None)
                /\ to_datetime' = (IF Truthy(to_date) THEN Some(t.date) ELSE None)
                /\ pc' = "encode"
                /\ UNCHANGED ret
    /\ UNCHANGED <<parquet_exists, offline, args, calls, hits, cross_scores,
                   reranked_results, filtered_results>>

\* encoder.encode(query, normalize_embeddings=True) returns a vector
Encode ==
    /\ pc = "encode"
    /\ calls' = calls \cup {"encode"}
    /\ pc' = "query"
    /\ UNCHANGED <<parquet_exists, offline, args, locals, ret>>

\* encoder.encode raises: nothing in search_newsletter catches it
EncodeFails ==
    /\ pc = "encode"
    /\ calls' = calls \cup {"encode"}
    /\ pc' = "raised"
    /\ UNCHANGED <<parquet_exists, offline, args, locals, ret>>

\* qdrant.query_points(..., limit=50).points returns the nearest points
Query ==
    /\ pc = "query"
    /\ calls' = calls \cup {"query_points"}
    /\ \E n \in 0..MaxHits :
          /\ n <= QueryLimit
          /\ \E dates \in [1..n -> PayloadDates] : hits' = HitsOf(n, dates)
    /\ pc' = "hits"
    /\ UNCHANGED <<parquet_exists, offline, args, from_datetime, to_datetime,
                   cross_scores, reranked_results, filtered_results, ret>>

\* qdrant.query_points raises
QueryFails ==
    /\ pc = "query"
    /\ calls' = calls \cup {"query_points"}
    /\ pc' = "raised"
    /\ UNCHANGED <<parquet_exists, offline, args, locals, ret>>

\* "if not hits: return {...}"
NoHits ==
    /\ pc = "hits"
    /\ hits = <<>>
    /\ ret' = NoHitsResponse(query, from_date, to_date, min_score)
    /\ pc' = "returned"
    /\ UNCHANGED <<parquet_exists, offline, args, locals, calls>>

\* reranker.predict(pairs) returns one score per pair; then zip, sort, the
\* filter loop and the return of the response, none of which can fail
RerankAndReturn ==
    /\ pc = "hits"
    /\ hits # <<>>
    /\ calls' = calls \cup {"predict"}
    /\ \E cs \in [1..Len(hits) -> Scores] :
          LET rr == SortedByScore(Zip(hits, cs))
              fr == FilterLoop(rr, 1, <<>>, min_score, from_datetime,
                               to_datetime, limit)
          IN  /\ cross_scores' = cs
              /\ reranked_results' = rr
              /\ filtered_results' = fr
              /\ ret' = IF fr = <<>>
                        THEN NoFilteredResponse(query, from_date, to_date,
                                                min_score)
                        ELSE SearchResponse(query, from_date, to_date,
                                            min_score, fr)
    /\ pc' = "returned"
    /\ UNCHANGED <<parquet_exists, offline, args, from_datetime, to_datetime, hits>>

\* reranker.predict raises
RerankFails ==
    /\ pc = "hits"
    /\ hits # <<>>
    /\ calls' = calls \cup {"predict"}
    /\ pc' = "raised"
    /\ UNCHANGED <<parquet_exists, offline, args, locals, ret>>

-----------------------------------------------------------------------------
(* perform_search, src/app.py *)

\* the page calls perform_search(query)
AppCall ==
    /\ pc = "idle"
    /\ \E q \in Queries : query' = q
    /\ pc' = "app_db"
    /\ UNCHANGED <<parquet_exists, offline, from_date, to_date, min_score_given,
                   min_score, limit_given, limit, locals, calls, ret>>

\* init_vector_db() returned None: "if not qdrant: return None"
AppUnavailable ==
    /\ pc = "app_db"
    /\ ~parquet_exists
    /\ ret' = PyNone
    /\ pc' = "app_returned"
    /\ UNCHANGED <<parquet_exists, offline, args, locals, calls>>

\* encoder.encode returns a vector
AppEncode ==
    /\ pc = "app_db"
    /\ parquet_exists
    /\ calls' = calls \cup {"encode"}
    /\ pc' = "app_query"
    /\ UNCHANGED <<parquet_exists, offline, args, locals, ret>>

\* encoder.encode raises
AppEncodeFails ==
    /\ pc = "app_db"
    /\ parquet_exists
    /\ calls' = calls \cup {"encode"}
    /\ pc' = "app_raised"
    /\ UNCHANGED <<parquet_exists, offline, args, locals, ret>>

\* qdrant.query_points(..., limit=20).points
AppQuery ==
    /\ pc = "app_query"
    /\ calls' = calls \cup {"query_points"}
    /\ \E n \in 0..MaxHits :
          /\ n <= AppQueryLimit
          /\ \E dates \in [1..n -> PayloadDates] : hits' = HitsOf(n, dates)
    /\ pc' = "app_hits"
    /\ UNCHANGED <<parquet_exists, offline, args, from_datetime, to_datetime,
                   cross_scores, reranked_results, filtered_results, ret>>

\* qdrant.query_points raises
AppQueryFails ==
    /\ pc = "app_query"
    /\ calls' = calls \cup {"query_points"}
    /\ pc' = "app_raised"
    /\ UNCHANGED <<parquet_exists, offline, args, locals, ret>>

\* "if not hits: return []"
AppNoHits ==
    /\ pc = "app_hits"
    /\ hits = <<>>
    /\ ret' = PyList(<<>>)
    /\ pc' = "app_returned"
    /\ UNCHANGED <<parquet_exists, offline, args, locals, calls>>

\* reranker.predict, zip, sort, "return reranked_results"
AppRerank ==
    /\ pc = "app_hits"
    /\ hits # <<>>
    /\ calls' = calls \cup {"predict"}
    /\ \E cs \in [1..Len(hits) -> Scores] :
          /\ cross_scores' = cs
          /\ reranked_results' = SortedByScore(Zip(hits, cs))
          /\ ret' = PyList(SortedByScore(Zip(hits, cs)))
    /\ pc' = "app_returned"
    /\ UNCHANGED <<parquet_exists, offline, args, from_datetime, to_datetime, hits,
                   filtered_results>>

\* reranker.predict raises
AppRerankFails ==
    /\ pc = "app_hits"
    /\ hits # <<>>
    /\ calls' = calls \cup {"predict"}
    /\ pc' = "app_raised"
    /\ UNCHANGED <<parquet_exists, offline, args, locals, ret>>

-----------------------------------------------------------------------------

\* The call is over (a value was returned or an exception left the
\* function); the process waits for the next one, the locals are gone.
Finish ==
    /\ pc \in {"returned", "raised", "app_returned", "app_raised"}
    /\ pc' = "idle"
    /\ query' = "q"
    /\ from_date' = None
    /\ to_date' = None
    /\ min_score_given' = FALSE
    /\ min_score' = DefaultMinScore
    /\ limit_given' = FALSE
    /\ limit' = DefaultLimit
    /\ from_datetime' = None
    /\ to_datetime' = None
    /\ calls' = {}
    /\ hits' = <<>>
    /\ cross_scores' = <<>>
    /\ reranked_results' = <<>>
    /\ filtered_results' = <<>>
    /\ ret' = NoValue
    /\ UNCHANGED <<parquet_exists, offline>>

Next ==
    \/ SearchCall
    \/ ParseDates
    \/ Encode
    \/ EncodeFails
    \/ Query
    \/ QueryFails
    \/ NoHits
    \/ RerankAndReturn
    \/ RerankFails
    \/ AppCall
    \/ AppUnavailable
    \/ AppEncode
    \/ AppEncodeFails
    \/ AppQuery
    \/ AppQueryFails
    \/ AppNoHits
    \/ AppRerank
    \/ AppRerankFails
    \/ Finish

Spec == Init /\ [][Next]_vars

-----------------------------------------------------------------------------
(* Vocabulary of the properties *)

\* a call of search_newsletter has returned a value
Returned == pc = "returned"
\* the value returned is an error value
IsError(r) == "error" \in DOMAIN r
\* a call of search_newsletter has returned a search response
ReturnedResponse == Returned /\ ~IsError(ret)
\* search_newsletter is past its date parsing
PastParsing == pc \in {"encode", "query", "hits", "returned", "raised"}

\* the strings of the model, each with what strptime makes of it
DateStrings ==
    {ValueOf(o) : o \in (FromDateArgs \cup ToDateArgs \cup PayloadDates) \ {None}}
        \cup {StrOf(None)}
ParseOf == [s \in DateStrings |-> Strptime(s)]

\* o is a supplied string that is no date in the format YYYY-MM-DD
InvalidDate(o) == o # None /\ ~ParseOf[ValueOf(o)].ok
\* o is a string that is a date
Parseable(o) == o # None /\ ParseOf[ValueOf(o)].ok
DateOf(o) == ParseOf[ValueOf(o)].date
\* date d lies before the from_date / after the to_date of the call
BeforeFrom(d) == Parseable(from_date) /\ DateLess(d, DateOf(from_date))
AfterTo(d) == Parseable(to_date) /\ DateLess(DateOf(to_date), d)

\* positions of the sorted candidates
Positions == 1..Len(reranked_results)
\* the candidate at position i is among the accepted ones
Accepted(i) ==
    \E j \in 1..Len(filtered_results) :
        filtered_results[j].hit.text = reranked_results[i].hit.text
\* the position of the last accepted candidate
LastPos ==
    CHOOSE i \in Positions :
        reranked_results[i].hit.text =
            filtered_results[Len(filtered_results)].hit.text
\* the loop has examined position i (it stops after the append that
\* makes the number of accepted candidates reach limit)
Visited(i) ==
    \/ filtered_results = <<>>
    \/ Len(filtered_results) < limit
    \/ i <= LastPos
\* the candidate at position i has a date outside the bounds of the call
DateOut(i) ==
    /\ Parseable(reranked_results[i].hit.date)
    /\ \/ BeforeFrom(DateOf(reranked_results[i].hit.date))
       \/ AfterTo(DateOf(reranked_results[i].hit.date))
\* the texts of the returned results, in order
ResultTexts == [j \in 1..Len(ret.results) |-> ret.results[j].text]

-----------------------------------------------------------------------------
(* Properties *)

\* C1: whenever a supplied from_date or to_date fails to parse as
\* YYYY-MM-DD, search_newsletter returns an error value and has made no
\* black-box call (embedding, index query, reranker) in that call.
C1_InvalidDateRejectedBeforeWork ==
    (PastParsing /\ (InvalidDate(from_date) \/ InvalidDate(to_date)))
        => (Returned /\ IsError(ret) /\ calls = {})

\* Every error return of the date parsing precedes all black-box calls, and
\* every non-empty unparseable bound ends in that return.
RejectionPrecedesWork ==
    /\ (Returned /\ IsError(ret)) => calls = {}
    /\ \A o \in {from_date, to_date} :
          (PastParsing /\ Truthy(o) /\ InvalidDate(o))
              => (Returned /\ IsError(ret))

\* C2: every string supplied as from_date or to_date that is not a valid
\* date, the empty string included, makes search_newsletter return a
\* rejected-request error, never a search response.
C2_InvalidDateNeverIgnored ==
    \A o \in {from_date, to_date} :
        (Returned /\ InvalidDate(o)) => IsError(ret)

\* C3: with no date bounds and limit at least the number of candidates, the
\* results are exactly the candidates whose rerank score is >= min_score,
\* in descending order of rerank score.
C3_ScoreFilterExact ==
    (ReturnedResponse /\ from_date = None /\ to_date = None
        /\ limit >= Len(hits))
    => /\ {ResultTexts[j] : j \in 1..Len(ret.results)}
            = {i \in 1..Len(hits) : cross_scores[i] >= min_score}
       /\ Len(ret.results)
            = Cardinality({i \in 1..Len(hits) : cross_scores[i] >= min_score})
       /\ ret.total_results = Len(ret.results)
       /\ \A j \in 1..Len(ret.results), k \in 1..Len(ret.results) :
             j < k => cross_scores[ResultTexts[j]] >= cross_scores[ResultTexts[k]]

\* a score equal to min_score is kept while a lower one is dropped
C3_Witness ==
    /\ ReturnedResponse /\ from_date = None /\ to_date = None
    /\ min_score_given /\ limit >= Len(hits)
    /\ cross_scores = <<90004, -10000, 50000>>
    /\ ResultTexts = <<1, 3>>

\* C4: a candidate whose payload date is missing or does not parse is never
\* removed by the date filter, whatever the bounds: with a rerank score
\* >= min_score it is accepted unless the loop stopped at limit before it.
C4_BadDateSurvives ==
    ReturnedResponse =>
        \A i \in Positions :
            (/\ ~Parseable(reranked_results[i].hit.date)
             /\ reranked_results[i].score >= min_score
             /\ Visited(i))
            => Accepted(i)

\* both bounds are set, a candidate with an unparseable date and one with
\* no date are returned, a dated one is dropped
C4_Witness ==
    /\ ReturnedResponse
    /\ Parseable(from_date) /\ Parseable(to_date)
    /\ Len(hits) = 3
    /\ hits[1].date = Some(S_na) /\ hits[2].date = None
    /\ hits[3].date = Some(S_2020_01_05)
    /\ \A i \in 1..3 : cross_scores[i] >= min_score
    /\ {ResultTexts[j] : j \in 1..Len(ret.results)} = {1, 2}

\* C5: a candidate with a parseable date d is dropped by the date filter
\* exactly when from_date is supplied and d < from_date, or to_date is
\* supplied and d > to_date (both bounds inclusive), and every returned
\* result with a parseable date lies within the bounds.
C5_DateFilterInclusive ==
    ReturnedResponse =>
        /\ \A i \in Positions :
              (/\ Parseable(reranked_results[i].hit.date)
               /\ reranked_results[i].score >= min_score
               /\ Visited(i))
              => (Accepted(i) <=> ~DateOut(i))
        /\ \A j \in 1..Len(ret.results) :
              ParseOf[ret.results[j].date].ok =>
                  /\ ~BeforeFrom(ParseOf[ret.results[j].date].date)
                  /\ ~AfterTo(ParseOf[ret.results[j].date].date)

\* a candidate dated exactly from_date is returned and an earlier one dropped
C5_Witness ==
    /\ ReturnedResponse
    /\ from_date = Some(S_2020_1_6) /\ to_date = None
    /\ Len(hits) = 2
    /\ hits[1].date = Some(S_2020_01_05) /\ hits[2].date = Some(S_2020_01_06)
    /\ \A i \in 1..2 : cross_scores[i] >= min_score
    /\ ResultTexts = <<2>>

\* the candidates that pass the score and date filters, in sorted order
Qualifying ==
    LET Pass(i) == reranked_results[i].score >= min_score /\ ~DateOut(i)
        F[i \in 0..Len(reranked_results)] ==
            IF i = 0 THEN <<>>
            ELSE IF Pass(i) THEN Append(F[i - 1], reranked_results[i].hit.text)
            ELSE F[i - 1]
    IN  F[Len(reranked_results)]

\* C6: for limit > 0 at most limit results are returned, and when more than
\* limit candidates pass the score and date filters exactly limit are
\* returned: the first limit of the sorted, filtered candidates.
C6_LimitPrefix ==
    (ReturnedResponse /\ limit > 0) =>
        /\ Len(ret.results) <= limit
        /\ Len(Qualifying) > limit =>
              /\ Len(ret.results) = limit
              /\ ResultTexts = SubSeq(Qualifying, 1, limit)

\* three candidates qualify and limit is 2
C6_Witness ==
    /\ ReturnedResponse
    /\ limit = 2
    /\ Len(Qualifying) = 3
    /\ Len(ret.results) = 2

\* the rerank step has produced its sorted sequence
Reranked == pc \in {"returned", "app_returned"} /\ cross_scores # <<>>

\* C7: the reranked sequence is a permutation of the retrieved hits with
\* their scores, in non-increasing score order, and candidates of equal
\* score keep the order of the initial retrieval.
C7_StableDescendingSort ==
    Reranked =>
        /\ Len(reranked_results) = Len(hits)
        /\ {reranked_results[i].hit.text : i \in Positions} = 1..Len(hits)
        /\ \A i \in Positions :
              /\ reranked_results[i].hit = hits[reranked_results[i].hit.text]
              /\ reranked_results[i].score
                    = cross_scores[reranked_results[i].hit.text]
        /\ \A i \in Positions, j \in Positions :
              i < j =>
                  /\ reranked_results[i].score >= reranked_results[j].score
                  /\ reranked_results[i].score = reranked_results[j].score
                        => reranked_results[i].hit.text
                              < reranked_results[j].hit.text
        /\ pc = "app_returned" => ret = PyList(reranked_results)

\* two candidates tie and a later hit outranks both
C7_Witness ==
    /\ Reranked
    /\ cross_scores = <<50000, 50000, 90004>>
    /\ [i \in Positions |-> reranked_results[i].hit.text] = <<3, 1, 2>>

C9_EmptyIndexDistinct ==
    (ReturnedResponse /\ hits # <<>>)
        => ret # NoHitsResponse(query, from_date, to_date, min_score)

\* C10: a failing embedding, index or reranker call ends the search
\* operation with a returned error value, never with an exception leaving
\* search_newsletter or perform_search.
C10_FailureReturned ==
    pc \notin {"raised", "app_raised"}

-----------------------------------------------------------------------------
(* Python str operations, on sequences of one-character strings *)

\* the characters str.strip and the regular expression class \s remove here
Whitespace == {" ", "\n"}
IsSpace(c) == c \in Whitespace

MinOf(S) == CHOOSE x \in S : \A y \in S : x <= y
MaxOf(S) == CHOOSE x \in S : \A y \in S : x >= y

\* s[p:] begins with lit
MatchAt(s, p, lit) ==
    /\ p >= 1
    /\ p + Len(lit) - 1 <= Len(s)
    /\ \A i \in 1..Len(lit) : s[p + i - 1] = lit[i]

\* the first position >= p where lit occurs in s, 0 when there is none
Find(s, lit, p) ==
    LET found == {q \in p..(Len(s) - Len(lit) + 1) : MatchAt(s, q, lit)}
    IN  IF found = {} THEN 0 ELSE MinOf(found)

\* lit in s
Contains(s, lit) == \E q \in 1..(Len(s) - Len(lit) + 1) : MatchAt(s, q, lit)

\* s[p:]
Suffix(s, p) == SubSeq(s, p, Len(s))

\* s.replace(old, new), for a non-empty old
RECURSIVE Replace(_, _, _)
Replace(s, old, new) ==
    LET q == Find(s, old, 1)
    IN  IF q = 0 THEN s
        ELSE SubSeq(s, 1, q - 1) \o new
                 \o Replace(Suffix(s, q + Len(old)), old, new)

\* s.strip()
Strip(s) ==
    LET keep == {i \in 1..Len(s) : ~IsSpace(s[i])}
    IN  IF keep = {} THEN <<>> ELSE SubSeq(s, MinOf(keep), MaxOf(keep))

\* s.splitlines()
RECURSIVE SplitLines(_)
SplitLines(s) ==
    IF s = <<>> THEN <<>>
    ELSE LET q == Find(s, <<"\n">>, 1)
         IN  IF q = 0 THEN <<s>>
             ELSE <<SubSeq(s, 1, q - 1)>> \o SplitLines(Suffix(s, q + 1))

\* "\n".join(lines)
RECURSIVE JoinLines(_)
JoinLines(lines) ==
    IF lines = <<>> THEN <<>>
    ELSE IF Len(lines) = 1 THEN lines[1]
    ELSE lines[1] \o <<"\n">> \o JoinLines(Tail(lines))

\* s.split(sep)[0]
BeforeFirst(s, sep) ==
    LET q == Find(s, sep, 1)
    IN  IF q = 0 THEN s ELSE SubSeq(s, 1, q - 1)

\* the position of the first character at or after p that is c, 0 if none
FindChar(s, c, p) ==
    LET found == {q \in p..Len(s) : s[q] = c}
    IN  IF found = {} THEN 0 ELSE MinOf(found)

\* the position after the run of whitespace that starts at p
SkipSpace(s, p) ==
    LET stop == {q \in p..Len(s) : ~IsSpace(s[q])}
    IN  IF stop = {} THEN Len(s) + 1 ELSE MinOf(stop)

\* re.split: the pieces of s around the matches, a set of <<first, last>>
\* positions, none of which overlap
RECURSIVE PiecesFrom(_, _, _)
PiecesFrom(s, from, matches) ==
    IF matches = {} THEN <<Suffix(s, from)>>
    ELSE LET m == CHOOSE x \in matches : \A y \in matches : x[1] <= y[1]
         IN  <<SubSeq(s, from, m[1] - 1)>>
                 \o PiecesFrom(s, m[2] + 1, matches \ {m})

-----------------------------------------------------------------------------
(* The texts parse_newsletter looks for and writes *)

ShareLine ==
    <<"[", "S", "h", "a", "r", "e", " ", "t", "h", "i", "s", " ", "o", "n">>

HeadingMark ==
    <<"#", "#">>

Rule ==
    <<"-", "-", "-">>

IdeasMarker ==
    <<"3", " ", "I", "D", "E", "A", "S", " ", "F", "R", "O", "M", " ", "M",
      "E">>

QuotesMarker ==
    <<"2", " ", "Q", "U", "O", "T", "E", "S", " ", "F", "R", "O", "M", " ",
      "O", "T", "H", "E", "R", "S">>

QuestionMarker ==
    <<"1", " ", "Q", "U", "E", "S", "T", "I", "O", "N", " ", "F", "O", "R",
      " ", "Y", "O", "U">>

SignOff ==
    <<"U", "n", "t", "i", "l", " ", "n", "e", "x", "t", " ", "w", "e", "e",
      "k">>

SourceLabel ==
    <<"*", "S", "o", "u", "r", "c", "e", ":", "*">>

IdeaPrefix ==
    <<"I", "d", "e", "a", " ", "f", "r", "o", "m", " ", "J", "a", "m", "e",
      "s", " ", "C", "l", "e", "a", "r", ":", " ">>

QuotePrefix ==
    <<"Q", "u", "o", "t", "e", " ", "f", "r", "o", "m", " ">>

QuoteColon ==
    <<":", " ">>

-----------------------------------------------------------------------------
(* src/pipeline/utils.py: the chunker *)

\* The match of \[([^\]]+)\]\(([^\)]+)\) that begins at position p of s: the
\* title runs to the first "]", which "(" must follow, and the address runs
\* to the first ")"; neither may be empty.
LinkAt(s, p) ==
    LET close == FindChar(s, "]", p + 1)
        paren == FindChar(s, ")", close + 2)
    IN  IF /\ p >= 1
           /\ p <= Len(s)
           /\ s[p] = "["
           /\ close > p + 1
           /\ close + 1 <= Len(s)
           /\ s[close + 1] = "("
           /\ paren > close + 2
        THEN [found |-> TRUE, last |-> paren,
              title |-> SubSeq(s, p + 1, close - 1),
              url |-> SubSeq(s, close + 2, paren - 1)]
        ELSE [found |-> FALSE, last |-> 0, title |-> <<>>, url |-> <<>>]

\* the first position >= p where a link begins, 0 when there is none
NextLink(s, p) ==
    LET found == {q \in p..Len(s) : LinkAt(s, q).found}
    IN  IF found = {} THEN 0 ELSE MinOf(found)

RECURSIVE CleanLinksFrom(_, _)
CleanLinksFrom(s, p) ==
    LET q == NextLink(s, p)
    IN  IF q = 0 THEN Suffix(s, p)
        ELSE SubSeq(s, p, q - 1) \o LinkAt(s, q).title
                 \o CleanLinksFrom(s, LinkAt(s, q).last + 1)

\* the text with its links left as they are
KeepLinks(text) == text

\* re.sub(r"\[([^\]]+)\]\([^\)]+\)", r"\1", text)
clean_links(text) == CleanLinksFrom(text, 1)

\* strip, drop the lines that are blank, join with "\n", strip
trim_empty_lines(text) ==
    Strip(JoinLines(SelectSeq(SplitLines(Strip(text)),
                              LAMBDA s : Strip(s) # <<>>)))

\* re.sub(r"^\[Share this on.*\n?", "", md_text, flags=re.MULTILINE)
RECURSIVE WithoutShareLines(_)
WithoutShareLines(s) ==
    IF s = <<>> THEN <<>>
    ELSE LET nl == Find(s, <<"\n">>, 1)
             line == IF nl = 0 THEN s ELSE SubSeq(s, 1, nl)
             rest == IF nl = 0 THEN <<>> ELSE Suffix(s, nl + 1)
         IN  (IF MatchAt(s, 1, ShareLine) THEN <<>> ELSE line)
                 \o WithoutShareLines(rest)

\* the matches of ^##\s+ in s: "##" at the start of a line and the whole
\* run of whitespace, newlines included, that follows it
HeadingMatches(s) ==
    {<<p, SkipSpace(s, p + 2) - 1>> :
        p \in {q \in 1..Len(s) : /\ q = 1 \/ s[q - 1] = "\n"
                                 /\ MatchAt(s, q, HeadingMark)
                                 /\ q + 2 <= Len(s)
                                 /\ IsSpace(s[q + 2])}}

\* re.split(r"^##\s+", clean_text, flags=re.MULTILINE)
Sections(s) == PiecesFrom(s, 1, HeadingMatches(s))

Numerals == {"I", "V", "X"}

\* the first position of the run of numerals that ends at position q
RunStart(s, q) == MinOf({p \in 1..q : \A r \in p..q : s[r] \in Numerals})

\* the matches of [IVX]+\. in s: each "." that follows a numeral, with the
\* whole run of numerals before it
NumeralMatches(s) ==
    {<<RunStart(s, d - 1), d>> :
        d \in {q \in 2..Len(s) : s[q] = "." /\ s[q - 1] \in Numerals}}

\* re.split(r"[IVX]+\.", section, flags=re.MULTILINE)
Segments(section) == PiecesFrom(section, 1, NumeralMatches(section))

\* an idea chunk numbered from 0
IdeaChunkFromZero(idea, i, issued) ==
    [text |-> IdeaPrefix \o trim_empty_lines(idea),
     metadata |-> [category |-> "idea", index |-> i - 1, date |-> issued]]

\* the chunk of one idea segment
IdeaChunk(idea, i, issued) ==
    [text |-> IdeaPrefix \o trim_empty_lines(idea),
     metadata |-> [category |-> "idea", index |-> i, date |-> issued]]

\* re.search(r"\*Source:\*\s*\[([^\]]+)\]\(([^\)]+)\)", quote): the link of
\* the first "*Source:*" that a link follows
SourceLinks(quote) ==
    {p \in 1..Len(quote) :
        /\ MatchAt(quote, p, SourceLabel)
        /\ LinkAt(quote, SkipSpace(quote, p + Len(SourceLabel))).found}
source_match(quote) ==
    IF SourceLinks(quote) = {} THEN LinkAt(quote, 0)
    ELSE LinkAt(quote, SkipSpace(quote,
                           MinOf(SourceLinks(quote)) + Len(SourceLabel)))

\* Where (.+) begins when \*Source:\*\s*(.+)$ matches at position p, else 0.
\* \s* takes the whole run of whitespace; when the text ends with that run
\* it gives characters back until (.+) has a space to match.
TitleStart(quote, p) ==
    LET a == p + Len(SourceLabel)
        b == SkipSpace(quote, a)
        back == {j \in a..Len(quote) : quote[j] # "\n"}
    IN  IF ~MatchAt(quote, p, SourceLabel) THEN 0
        ELSE IF b <= Len(quote) THEN b
        ELSE IF back = {} THEN 0 ELSE MaxOf(back)

\* the last position of the line that position p is on
LineEnd(s, p) ==
    LET nl == FindChar(s, "\n", p)
    IN  IF nl = 0 THEN Len(s) ELSE nl - 1

\* re.search(r"\*Source:\*\s*(.+)$", quote, re.MULTILINE), as group 1
text_match(quote) ==
    LET found == {p \in 1..Len(quote) : TitleStart(quote, p) # 0}
        from == TitleStart(quote, MinOf(found))
    IN  IF found = {} THEN None
        ELSE Some(SubSeq(quote, from, LineEnd(quote, from)))

\* re.sub(r"\n\*Source:\*.*", "", quote, flags=re.DOTALL)
WithoutSource(quote) == BeforeFirst(quote, <<"\n">> \o SourceLabel)

\* the quote without a prefix, whatever the title
NeverPrefixed(source_title, clean_quote) == clean_quote

\* the prefix goes in front only if the title is truthy
final_quote(source_title, clean_quote) ==
    IF Truthy(source_title)
    THEN QuotePrefix \o ValueOf(source_title) \o QuoteColon \o clean_quote
    ELSE clean_quote

\* the chunk of one quote segment
QuoteChunk(quote, i, issued) ==
    LET link == source_match(quote)
        source_title ==
            IF link.found THEN Some(Replace(link.title, <<"*">>, <<>>))
            ELSE IF text_match(quote) # None
                 THEN Some(Replace(ValueOf(text_match(quote)), <<"*">>, <<>>))
                 ELSE None
        source_url == IF link.found THEN Some(link.url) ELSE None
        clean_quote ==
            Strip(Replace(Replace(clean_links(WithoutSource(quote)),
                                  <<"*", "*">>, <<>>),
                          <<" ", " ">>, <<" ">>))
    IN  [text |-> trim_empty_lines(final_quote(source_title, clean_quote)),
         metadata |-> [category |-> "quote", source |-> source_url,
                       source_name |-> source_title, index |-> i,
                       date |-> issued]]

\* a question chunk that keeps the sign-off
QuestionChunkUncut(section, issued) ==
    [text |-> trim_empty_lines(Replace(section, QuestionMarker, <<>>)),
     metadata |-> [category |-> "question", index |-> 1, date |-> issued]]

\* the chunk of a question section
QuestionChunk(section, issued) ==
    LET question_text ==
            Strip(BeforeFirst(Strip(Replace(section, QuestionMarker, <<>>)),
                              SignOff))
    IN  [text |-> trim_empty_lines(question_text),
         metadata |-> [category |-> "question", index |-> 1,
                       date |-> issued]]

\* the chunks one section adds: the body of the loop over the sections
SectionChunks(raw, issued) ==
    LET section == Replace(Strip(raw), Rule, <<>>)
        parts == Segments(section)
    IN  IF Contains(section, IdeasMarker)
        THEN [i \in 1..(Len(parts) - 1) |->
                  IdeaChunk(parts[i + 1], i, issued)]
        ELSE IF Contains(section, QuotesMarker)
        THEN [i \in 1..(Len(parts) - 1) |->
                  QuoteChunk(parts[i + 1], i, issued)]
        ELSE IF Contains(section, QuestionMarker)
        THEN <<QuestionChunk(section, issued)>>
        ELSE <<>>

RECURSIVE ChunksOf(_, _)
ChunksOf(pieces, issued) ==
    IF pieces = <<>> THEN <<>>
    ELSE SectionChunks(Head(pieces), issued)
             \o ChunksOf(Tail(pieces), issued)

parse_newsletter(body, issued) ==
    ChunksOf(Sections(WithoutShareLines(body)), issued)

-----------------------------------------------------------------------------
(* Issue bodies: up to MaxBlocks blocks of lines, joined by newlines *)

\* the largest number of blocks in an issue body
MaxBlocks == 3

\* the heading of the idea section
B_ideas ==
    <<"#", "#", " ", "3", " ", "I", "D", "E", "A", "S", " ", "F", "R", "O",
      "M", " ", "M", "E">>

\* the heading of the quote section
B_quotes ==
    <<"#", "#", " ", "2", " ", "Q", "U", "O", "T", "E", "S", " ", "F", "R",
      "O", "M", " ", "O", "T", "H", "E", "R", "S">>

\* the heading of the question section
B_question ==
    <<"#", "#", " ", "1", " ", "Q", "U", "E", "S", "T", "I", "O", "N", " ",
      "F", "O", "R", " ", "Y", "O", "U">>

\* a level-2 heading that carries no marker
B_note ==
    <<"#", "#", " ", "N", "O", "T", "E">>

\* a list item whose text holds a link
B_item ==
    <<"I", ".", " ", "a", " ", "[", "b", "]", "(", "c", ")">>

\* a list item with no text
B_bare_item ==
    <<"I", "I", ".">>

\* body text that mentions a marker
B_mention ==
    <<"s", "e", "e", " ", "1", " ", "Q", "U", "E", "S", "T", "I", "O", "N",
      " ", "F", "O", "R", " ", "Y", "O", "U">>

\* an attribution: a link with an italic title
B_source ==
    <<"*", "S", "o", "u", "r", "c", "e", ":", "*", " ", "[", "*", "T", "*",
      "]", "(", "u", ")">>

\* a malformed attribution: the link is not closed
B_bad_source ==
    <<"*", "S", "o", "u", "r", "c", "e", ":", "*", " ", "[", "T", "]", "(">>

\* a list item with no text, and its attribution on the next line
B_cited ==
    <<"I", "I", ".", "\n", "*", "S", "o", "u", "r", "c", "e", ":", "*", " ",
      "[", "*", "T", "*", "]", "(", "u", ")">>

\* a list item whose first line is its attribution
B_source_first ==
    <<"I", ".", " ", "*", "S", "o", "u", "r", "c", "e", ":", "*", " ", "[",
      "T", "]", "(", "u", ")">>

\* the sign-off
B_sign_off ==
    <<"U", "n", "t", "i", "l", " ", "n", "e", "x", "t", " ", "w", "e", "e",
      "k", ",", " ", "d">>

\* a rule, a blank line and a line with bold text
B_text ==
    <<"-", "-", "-", "\n", "\n", "w", " ", " ", "*", "*", "x", "*", "*">>

Blocks ==
    {B_ideas, B_quotes, B_question, B_note, B_item, B_bare_item, B_mention,
     B_source, B_bad_source, B_cited, B_source_first, B_sign_off, B_text}

Bodies ==
    {JoinLines(b) : b \in UNION {[1..n -> Blocks] : n \in 0..MaxBlocks}}

\* the issue date the bodies are chunked with
IssueDates == {S_2020_01_06}

-----------------------------------------------------------------------------
(* parse_newsletter, step by step: the call, the loop over the sections, *)
(* the return                                                            *)

\* the variables of the search side
serving == <<parquet_exists, pc, args, locals, calls, ret>>

\* the section as the loop body sees it: stripped, without rules
Cleaned(raw) == Replace(Strip(raw), Rule, <<>>)

\* the branch of the loop body a section takes
Branch(section) ==
    IF Contains(section, IdeasMarker) THEN "idea"
    ELSE IF Contains(section, QuotesMarker) THEN "quote"
    ELSE IF Contains(section, QuestionMarker) THEN "question"
    ELSE "none"

\* the section the loop takes next
NextRaw == sections[section_no + 1]

\* parse_newsletter is called: the share lines are removed and the body is
\* split into sections
ParseCall ==
    /\ parse_pc = "idle"
    /\ \E body \in Bodies, d \in IssueDates :
          /\ md_text' = body
          /\ issue_date' = d
          /\ sections' = Sections(WithoutShareLines(body))
    /\ section_no' = 0
    /\ chunks' = <<>>
    /\ parse_pc' = "loop"
    /\ UNCHANGED <<serving, pipeline, outer>>

\* one turn of the loop, in the branch br
Turn(br) ==
    /\ section_no < Len(sections)
    /\ Branch(Cleaned(NextRaw)) = br
    /\ chunks' = chunks \o SectionChunks(NextRaw, issue_date)
    /\ section_no' = section_no + 1
    /\ UNCHANGED <<serving, pipeline, outer, parse_pc, md_text, issue_date, sections>>

\* the section holds "3 IDEAS FROM ME"
IdeaSection ==
    /\ parse_pc = "loop"
    /\ Turn("idea")

\* the section holds "2 QUOTES FROM OTHERS" and not the idea marker
QuoteSection ==
    /\ parse_pc = "loop"
    /\ Turn("quote")

\* the section holds "1 QUESTION FOR YOU" and neither of the other markers
QuestionSection ==
    /\ parse_pc = "loop"
    /\ Turn("question")

\* the section holds no marker: nothing is appended
OtherSection ==
    /\ parse_pc = "loop"
    /\ Turn("none")

\* the loop is over: the chunks are returned
ParseReturn ==
    /\ parse_pc = "loop"
    /\ section_no = Len(sections)
    /\ parse_pc' = "returned"
    /\ UNCHANGED <<serving, pipeline, outer, md_text, issue_date, sections,
                   section_no, chunks>>

ChunkerNext ==
    \/ ParseCall
    \/ IdeaSection
    \/ QuoteSection
    \/ QuestionSection
    \/ OtherSection
    \/ ParseReturn

\* one call of parse_newsletter, while no search is being served
ChunkerInit ==
    /\ Init
    /\ ~parquet_exists

ChunkerSpec == ChunkerInit /\ [][ChunkerNext]_vars

-----------------------------------------------------------------------------
(* src/pipeline/embeddings_assets.py: text_chunks_for_embedding *)

\* the largest number of markdown files a run is given
MaxFiles == 2

\* date.strftime("%B").lower(), by month number
MonthNames ==
    <<
        <<"j", "a", "n", "u", "a", "r", "y">>,
        <<"f", "e", "b", "r", "u", "a", "r", "y">>,
        <<"m", "a", "r", "c", "h">>,
        <<"a", "p", "r", "i", "l">>,
        <<"m", "a", "y">>,
        <<"j", "u", "n", "e">>,
        <<"j", "u", "l", "y">>,
        <<"a", "u", "g", "u", "s", "t">>,
        <<"s", "e", "p", "t", "e", "m", "b", "e", "r">>,
        <<"o", "c", "t", "o", "b", "e", "r">>,
        <<"n", "o", "v", "e", "m", "b", "e", "r">>,
        <<"d", "e", "c", "e", "m", "b", "e", "r">>
    >>

UrlBase ==
    <<"h", "t", "t", "p", "s", ":", "/", "/", "j", "a", "m", "e", "s", "c",
      "l", "e", "a", "r", ".", "c", "o", "m", "/", "3", "-", "2", "-", "1",
      "/">>

Unknown == <<"U", "n", "k", "n", "o", "w", "n">>

MdSuffix == <<".", "m", "d">>

\* an issue with a title line and two ideas
File_2020_01_06 ==
    [name |-> <<"2", "0", "2", "0", "-", "0", "1", "-", "0", "6", ".", "m", "d">>,
     md_content |->
         <<"#", " ", "T", "\n", "\n", "#", "#", " ", "3", " ", "I", "D", "E",
       "A", "S", " ", "F", "R", "O", "M", " ", "M", "E", "\n", "I", ".",
       " ", "a", "\n", "I", "I", ".", " ", "b">>]

\* an issue without title line, with one attributed quote
File_2020_02_13 ==
    [name |-> <<"2", "0", "2", "0", "-", "0", "2", "-", "1", "3", ".", "m", "d">>,
     md_content |->
         <<"#", "#", " ", "2", " ", "Q", "U", "O", "T", "E", "S", " ", "F",
       "R", "O", "M", " ", "O", "T", "H", "E", "R", "S", "\n", "I", ".",
       " ", "q", "\n", "*", "S", "o", "u", "r", "c", "e", ":", "*", " ",
       "[", "T", "]", "(", "u", ")">>]

\* an issue whose title line holds "# " twice, with a question
File_2021_11_04 ==
    [name |-> <<"2", "0", "2", "1", "-", "1", "1", "-", "0", "4", ".", "m", "d">>,
     md_content |->
         <<"#", " ", "U", " ", "#", " ", "V", "\n", "\n", "#", "#", " ", "1",
       " ", "Q", "U", "E", "S", "T", "I", "O", "N", " ", "F", "O", "R",
       " ", "Y", "O", "U", "\n", "w">>]

Files == {File_2020_01_06, File_2020_02_13, File_2021_11_04}

\* the lists of markdown files a run can be given
FileLists == UNION {[1..n -> Files] : n \in 0..MaxFiles}

\* s.split(c), for a one-character c
SplitOn(s, c) == PiecesFrom(s, 1, {<<p, p>> : p \in {q \in 1..Len(s) : s[q] = c}})

\* file_path.name.split(".md")[0].split("-")
PartsOf(name) == SplitOn(BeforeFirst(name, MdSuffix), "-")

\* f"{year}-{month}-{day}"
DateStrOf(name) ==
    PartsOf(name)[1] \o <<"-">> \o PartsOf(name)[2] \o <<"-">> \o PartsOf(name)[3]

\* the name has a year, a month and a day that strptime accepts
NameParses(name) == Len(PartsOf(name)) >= 3 /\ Strptime(DateStrOf(name)).ok

\* the title: the first line without "# " if it starts with "# "
TitleContent(md_content) ==
    LET first == BeforeFirst(md_content, <<"\n">>)
    IN  IF MatchAt(first, 1, <<"#", " ">>)
        THEN Strip(Replace(first, <<"#", " ">>, <<>>))
        ELSE Unknown

\* date.strftime("%-d"): the day without leading zero
DayNum(d) ==
    LET digit(v) == CHOOSE c \in DOMAIN DigitChars : DigitChars[c] = v
    IN  IF d < 10 THEN <<digit(d)>> ELSE <<digit(d \div 10), digit(d % 10)>>

\* f"https://jamesclear.com/3-2-1/{month_name}-{day_num}-{year}"
NewsletterUrl(name) ==
    LET date == Strptime(DateStrOf(name)).date
    IN  UrlBase \o MonthNames[date[2]] \o <<"-">> \o DayNum(date[3])
            \o <<"-">> \o PartsOf(name)[1]

\* one row of the table pd.json_normalize builds: the columns a chunk lacks
\* are null, and no row has a vector yet
RowOf(chunk, title, url) ==
    [text |-> chunk.text,
     category |-> chunk.metadata.category,
     index |-> chunk.metadata.index,
     date |-> chunk.metadata.date,
     source |-> IF "source" \in DOMAIN chunk.metadata
                THEN chunk.metadata.source ELSE None,
     source_name |-> IF "source_name" \in DOMAIN chunk.metadata
                     THEN chunk.metadata.source_name ELSE None,
     title |-> title,
     url |-> url,
     vector |-> None]

\* the rows of one file: its chunks, stamped with its title and its url
SectionsOfFile(file) ==
    LET found == parse_newsletter(file.md_content, DateStrOf(file.name))
    IN  [i \in 1..Len(found) |->
            RowOf(found[i], TitleContent(file.md_content),
                  NewsletterUrl(file.name))]

\* the rows of the files, by file: they are computed once
RowsOfFile == [file \in Files |-> SectionsOfFile(file)]

\* all_issues after the loop over the files
RECURSIVE AllIssues(_)
AllIssues(files) ==
    IF files = <<>> THEN <<>>
    ELSE RowsOfFile[Head(files)] \o AllIssues(Tail(files))

\* a write that keeps the rows the file had
KeepOldRows(old, rows) ==
    IF old = None THEN Some(rows) ELSE Some(ValueOf(old) \o rows)

\* df.to_parquet(path): the file holds the rows of df and nothing else
to_parquet(old, rows) == Some(rows)

\* no encoded_vectors run is between its read and its write
VectorizerResting == vectorizer_pc \in {"idle", "materialized", "raised"}

\* A run of text_chunks_for_embedding that completes: the table is written
\* anew from the files given.
BuildCorpus ==
    /\ VectorizerResting
    /\ \E files \in FileLists :
          /\ \A i \in 1..Len(files) : NameParses(files[i].name)
          /\ markdown_files' = files
          /\ parquet_rows' = to_parquet(parquet_rows, AllIssues(files))
    /\ builder_pc' = "materialized"
    /\ UNCHANGED <<serving, chunker, outer, vectorizer_pc, df>>

\* A run of text_chunks_for_embedding that raises while it reads one of its
\* files: it never gets to to_parquet.
BuildRaises ==
    /\ VectorizerResting
    /\ \E files \in FileLists :
          /\ files # <<>>
          /\ markdown_files' = files
    /\ builder_pc' = "raised"
    /\ UNCHANGED <<serving, chunker, outer, parquet_rows, vectorizer_pc, df>>

-----------------------------------------------------------------------------
(* src/pipeline/encode_assets.py: encoded_vectors *)

\* the vector the embedding model gives a text
Embedding(text) == [embedding_of |-> text]

\* rows of which only the first gets its vector
WithFirstVector(rows) ==
    [i \in 1..Len(rows) |->
        IF i = 1 THEN [rows[i] EXCEPT !.vector = Some(Embedding(rows[i].text))]
        ELSE rows[i]]

\* df["vector"] = vectors.tolist()
WithVectors(rows) ==
    [i \in 1..Len(rows) |->
        [rows[i] EXCEPT !.vector = Some(Embedding(rows[i].text))]]

\* pd.read_parquet(parquet_file)
ReadParquet ==
    /\ VectorizerResting
    /\ parquet_rows # None
    /\ df' = ValueOf(parquet_rows)
    /\ vectorizer_pc' = "read"
    /\ UNCHANGED <<serving, chunker, outer, parquet_rows, markdown_files, builder_pc>>

\* pd.read_parquet raises: there is no file
ReadParquetFails ==
    /\ VectorizerResting
    /\ parquet_rows = None
    /\ vectorizer_pc' = "raised"
    /\ UNCHANGED <<serving, chunker, outer, parquet_rows, markdown_files, builder_pc,
                   df>>

\* embeddings_model.encode returns the vectors, which become a column
EncodeTexts ==
    /\ vectorizer_pc = "read"
    /\ df # <<>>
    /\ df' = WithVectors(df)
    /\ vectorizer_pc' = "encoded"
    /\ UNCHANGED <<serving, chunker, outer, parquet_rows, markdown_files, builder_pc>>

\* loading the model or encode raises (and df["text"] does when the table
\* has no row, hence no column): the run is over
EncodeTextsFails ==
    /\ vectorizer_pc = "read"
    /\ df' = <<>>
    /\ vectorizer_pc' = "raised"
    /\ UNCHANGED <<serving, chunker, outer, parquet_rows, markdown_files, builder_pc>>

\* df.to_parquet(parquet_file)
WriteParquet ==
    /\ vectorizer_pc = "encoded"
    /\ parquet_rows' = to_parquet(parquet_rows, df)
    /\ df' = <<>>
    /\ vectorizer_pc' = "materialized"
    /\ UNCHANGED <<serving, chunker, outer, markdown_files, builder_pc>>

PipelineNext ==
    \/ BuildCorpus
    \/ BuildRaises
    \/ ReadParquet
    \/ ReadParquetFails
    \/ EncodeTexts
    \/ EncodeTextsFails
    \/ WriteParquet

\* the runs of the two assets, one at a time, while no search is served
PipelineInit ==
    /\ Init
    /\ ~parquet_exists

PipelineSpec == PipelineInit /\ [][PipelineNext]_vars

-----------------------------------------------------------------------------
(* Vocabulary of the chunker properties *)

Markers == {IdeasMarker, QuotesMarker, QuestionMarker}

\* a line is a level-2 heading
IsHeading(line) == MatchAt(line, 1, <<"#", "#", " ">>)

\* a line is a level-2 heading that carries one of the three markers
IsMarkerHeading(line) == IsHeading(line) /\ \E m \in Markers : Contains(line, m)

\* the lines of the issue body
BodyLines == SplitLines(md_text)

\* the body has no level-2 heading with a marker
NoMarkerHeading == \A i \in 1..Len(BodyLines) : ~IsMarkerHeading(BodyLines[i])

\* parse_newsletter has returned its chunks
ParseReturned == parse_pc = "returned"

-----------------------------------------------------------------------------
(* C11 *)

\* C11: for every issue body in which no level-2 heading carries one of the
\* three markers, parse_newsletter returns the empty list, also when a marker
\* string or Roman-numeral text occurs in text that is not a heading.
C11_NoMarkerHeadingNoChunks ==
    (ParseReturned /\ NoMarkerHeading) => chunks = <<>>

-----------------------------------------------------------------------------
(* C12 *)

\* the heading of a section: the first line of a piece that follows "## "
HeadingOf(raw) == BeforeFirst(raw, <<"\n">>)

\* the loop is about to take a section whose heading carries marker m (the
\* first piece is the text before the first heading: it has no heading)
AtSectionOf(m) ==
    /\ parse_pc = "loop"
    /\ section_no >= 1
    /\ section_no < Len(sections)
    /\ Contains(HeadingOf(NextRaw), m)

\* the positions of the periods that end a Roman-numeral marker
MarkerDots(s) == {d \in 2..Len(s) : s[d] = "." /\ s[d - 1] \in {"I", "V", "X"}}

\* the i-th smallest element of a set of numbers
RECURSIVE Nth(_, _)
Nth(S, i) == IF i = 1 THEN MinOf(S) ELSE Nth(S \ {MinOf(S)}, i - 1)

\* t without the numerals it ends with
RECURSIVE DropNumerals(_)
DropNumerals(t) ==
    IF t # <<>> /\ t[Len(t)] \in {"I", "V", "X"}
    THEN DropNumerals(SubSeq(t, 1, Len(t) - 1))
    ELSE t

\* the text between the i-th marker of s and the next one (or the end)
SegmentAfter(s, i) ==
    LET dots == MarkerDots(s)
    IN  IF i = Cardinality(dots) THEN Suffix(s, Nth(dots, i) + 1)
        ELSE DropNumerals(SubSeq(s, Nth(dots, i) + 1, Nth(dots, i + 1) - 1))

\* the idea chunks a section with text s is to yield
ExpectedIdeas(s) ==
    [i \in 1..Cardinality(MarkerDots(s)) |->
        [text |-> IdeaPrefix \o trim_empty_lines(SegmentAfter(s, i)),
         metadata |-> [category |-> "idea", index |-> i,
                       date |-> issue_date]]]

C12_IdeaTurn ==
    AtSectionOf(IdeasMarker) =>
        [v |-> chunks'] = [v |-> chunks \o ExpectedIdeas(Cleaned(NextRaw))]

\* C12: when the loop takes an idea section with exactly N Roman-numeral
\* markers (N >= 0), it appends exactly N idea chunks, with index 1..N in
\* segment order, each with the text "Idea from James Clear: " followed by the
\* trimmed segment; the text before the first marker yields no chunk, and
\* N = 0 yields none.
C12_IdeaChunksPerMarker == [][C12_IdeaTurn]_vars

\* an idea section with two markers has been chunked into two idea chunks
C12_Witness ==
    /\ ParseReturned
    /\ Len(sections) = 2
    /\ Contains(HeadingOf(sections[2]), IdeasMarker)
    /\ Cardinality(MarkerDots(Cleaned(sections[2]))) = 2
    /\ Len(chunks) = 2
    /\ chunks[1].text = IdeaPrefix \o <<"a", " ", "[", "b", "]", "(", "c", ")">>
    /\ chunks[2].text = IdeaPrefix
    /\ chunks[2].metadata.index = 2

-----------------------------------------------------------------------------
(* C13 *)

\* s[:Len(lit)] = lit
StartsWith(s, lit) == MatchAt(s, 1, lit)

\* a line is an attribution of the form *Source:* [Title](URL)
IsLinkAttribution(line) ==
    /\ StartsWith(line, SourceLabel \o <<" ", "[">>)
    /\ Find(line, <<"]", "(">>, 1) > Len(SourceLabel) + 3
    /\ line[Len(line)] = ")"
    /\ Find(line, <<"]", "(">>, 1) + 2 < Len(line)

\* the title of such a line, without its asterisks
TitleOf(line) ==
    Replace(SubSeq(line, Len(SourceLabel) + 3,
                   Find(line, <<"]", "(">>, 1) - 1),
            <<"*">>, <<>>)

\* the titles of the link attributions among the lines of a segment
LinkTitles(seg) ==
    {TitleOf(SplitLines(seg)[j]) :
        j \in {k \in 1..Len(SplitLines(seg)) :
                  IsLinkAttribution(SplitLines(seg)[k])}}

\* the text holds markdown link markup: "[", text, "](", text, ")"
HasLinkMarkup(text) ==
    \E p \in 1..Len(text), q \in 1..Len(text), r \in 1..Len(text) :
        /\ text[p] = "["
        /\ q > p + 1
        /\ MatchAt(text, q, <<"]", "(">>)
        /\ r > q + 2
        /\ text[r] = ")"

\* the number of Roman-numeral markers of the section the loop takes next
MarkersNext == Cardinality(MarkerDots(Cleaned(NextRaw)))

\* the chunk the turn appends for the i-th segment
Appended(i) == chunks'[Len(chunks) + i]

\* the chunk of a quote segment with a link attribution: both source fields
\* are set, the title is that of the attribution, no link markup is left,
\* and the text begins with one of the given prefixes
AttributedChunk(c, seg, Prefixes(_)) ==
    /\ c.metadata.category = "quote"
    /\ c.metadata.source # None
    /\ c.metadata.source_name # None
    /\ ValueOf(c.metadata.source_name) \in LinkTitles(seg)
    /\ Prefixes(ValueOf(c.metadata.source_name))
    /\ ~HasLinkMarkup(c.text)

\* what a turn on a quote section does for the segments with a link
\* attribution
QuoteTurnAttributes(Good(_, _)) ==
    AtSectionOf(QuotesMarker) =>
        /\ Len(chunks') = Len(chunks) + MarkersNext
        /\ \A i \in 1..MarkersNext :
              LinkTitles(SegmentAfter(Cleaned(NextRaw), i)) # {} =>
                  Good(Appended(i), SegmentAfter(Cleaned(NextRaw), i))

C13_Stated(c, seg) ==
    AttributedChunk(c, seg,
        LAMBDA t : StartsWith(c.text, QuotePrefix \o t \o <<":", " ">>))

C13_Amended(c, seg) ==
    AttributedChunk(c, seg,
        LAMBDA t : \/ c.text = QuotePrefix \o t \o <<":">>
                   \/ StartsWith(c.text, QuotePrefix \o t \o <<":", " ">>))

-----------------------------------------------------------------------------
(* C14 *)

\* the chunk of a quote segment: without "*Source:*" in the segment both
\* source fields are null; the text has no "Quote from" in front when no
\* title is recorded, and is prefixed as Prefixes tells when one is
SourcedChunk(c, seg, Prefixes(_)) ==
    /\ c.metadata.category = "quote"
    /\ ~Contains(seg, SourceLabel) =>
           /\ c.metadata.source = None
           /\ c.metadata.source_name = None
    /\ IF c.metadata.source_name = None
       THEN ~StartsWith(c.text, QuotePrefix)
       ELSE Prefixes(ValueOf(c.metadata.source_name))

\* what a turn on a quote section does for every segment: one chunk each,
\* whatever the attribution looks like
QuoteTurnSources(Good(_, _)) ==
    AtSectionOf(QuotesMarker) =>
        /\ Len(chunks') = Len(chunks) + MarkersNext
        /\ \A i \in 1..MarkersNext :
              Good(Appended(i), SegmentAfter(Cleaned(NextRaw), i))

C14_Stated(c, seg) ==
    SourcedChunk(c, seg,
        LAMBDA t : StartsWith(c.text, QuotePrefix \o t \o <<":", " ">>))

C14_Amended(c, seg) ==
    SourcedChunk(c, seg,
        LAMBDA t : \/ c.text = QuotePrefix \o t \o <<":">>
                   \/ StartsWith(c.text, QuotePrefix \o t \o <<":", " ">>))

-----------------------------------------------------------------------------
(* C15 *)

\* the key of a chunk: issue date, category, index
KeyOf(c) == <<c.metadata.date, c.metadata.category, c.metadata.index>>

\* C15: in the chunk list of one issue body no two chunks share the same
\* (issue date, category, index), also when the body has several sections
\* that carry the same marker.
C15_KeysUnique ==
    ParseReturned =>
        \A i \in 1..Len(chunks), j \in 1..Len(chunks) :
            i # j => KeyOf(chunks[i]) # KeyOf(chunks[j])

-----------------------------------------------------------------------------
(* C16 *)

\* C16: every chunk parse_newsletter returns has a non-empty text, for every
\* body: also for a question section that holds only its heading or only the
\* sign-off, and for an idea or quote segment with no text.
C16_TextNonEmpty ==
    ParseReturned => \A i \in 1..Len(chunks) : chunks[i].text # <<>>

-----------------------------------------------------------------------------
(* C17 *)

\* the text before the first "Until next week", all of it when there is none
UpToSignOff(t) ==
    IF Contains(t, SignOff) THEN SubSeq(t, 1, Find(t, SignOff, 1) - 1) ELSE t

\* the text a question section s is to yield
ExpectedQuestion(s) ==
    trim_empty_lines(UpToSignOff(Replace(s, QuestionMarker, <<>>)))

C17_QuestionTurn ==
    AtSectionOf(QuestionMarker) =>
        /\ Len(chunks') = Len(chunks) + 1
        /\ SubSeq(chunks', 1, Len(chunks)) = chunks
        /\ Appended(1) =
               [text |-> ExpectedQuestion(Cleaned(NextRaw)),
                metadata |-> [category |-> "question", index |-> 1,
                              date |-> issue_date]]
        /\ ~Contains(Appended(1).text, SignOff)

-----------------------------------------------------------------------------
(* C18 *)

\* the category a heading stands for, "none" when it carries no marker
CategoryOfHeading(heading) ==
    IF Contains(heading, IdeasMarker) THEN "idea"
    ELSE IF Contains(heading, QuotesMarker) THEN "quote"
    ELSE IF Contains(heading, QuestionMarker) THEN "question"
    ELSE "none"

C18_HeadedTurn ==
    (parse_pc = "loop" /\ section_no >= 1 /\ section_no < Len(sections)) =>
        /\ Len(chunks') >= Len(chunks)
        /\ \A i \in (Len(chunks) + 1)..Len(chunks') :
              chunks'[i].metadata.category = CategoryOfHeading(HeadingOf(NextRaw))

\* C18: the category of a section is decided by its heading alone: a section
\* whose heading carries none of the three markers yields no chunk, also when
\* a marker string occurs later in its text, and the chunks a section yields
\* are all of one category, that of its heading.
C18_HeadingDecidesCategory == [][C18_HeadedTurn]_vars


-----------------------------------------------------------------------------
(* C19 *)

\* The chunks text_chunks_for_embedding collects for each file, with their
\* stamps, written out in full.
ExpectedOfFile ==
    File_2020_01_06 :>
    <<
        [text |-> <<"I", "d", "e", "a", " ", "f", "r", "o", "m", " ", "J",
                    "a", "m", "e", "s", " ", "C", "l", "e", "a", "r", ":",
                    " ", "a">>,
         category |-> "idea", index |-> 1,
         date |-> <<"2", "0", "2", "0", "-", "0", "1", "-", "0", "6">>,
         source |-> None, source_name |-> None,
         title |-> <<"T">>,
         url |->
             <<"h", "t", "t", "p", "s", ":", "/", "/", "j", "a", "m", "e",
               "s", "c", "l", "e", "a", "r", ".", "c", "o", "m", "/", "3",
               "-", "2", "-", "1", "/", "j", "a", "n", "u", "a", "r", "y",
               "-", "6", "-", "2", "0", "2", "0">>],
        [text |-> <<"I", "d", "e", "a", " ", "f", "r", "o", "m", " ", "J",
                    "a", "m", "e", "s", " ", "C", "l", "e", "a", "r", ":",
                    " ", "b">>,
         category |-> "idea", index |-> 2,
         date |-> <<"2", "0", "2", "0", "-", "0", "1", "-", "0", "6">>,
         source |-> None, source_name |-> None,
         title |-> <<"T">>,
         url |->
             <<"h", "t", "t", "p", "s", ":", "/", "/", "j", "a", "m", "e",
               "s", "c", "l", "e", "a", "r", ".", "c", "o", "m", "/", "3",
               "-", "2", "-", "1", "/", "j", "a", "n", "u", "a", "r", "y",
               "-", "6", "-", "2", "0", "2", "0">>]
    >> @@
    File_2020_02_13 :>
    <<
        [text |-> <<"Q", "u", "o", "t", "e", " ", "f", "r", "o", "m", " ",
                    "T", ":", " ", "q">>,
         category |-> "quote", index |-> 1,
         date |-> <<"2", "0", "2", "0", "-", "0", "2", "-", "1", "3">>,
         source |-> Some(<<"u">>), source_name |-> Some(<<"T">>),
         title |-> <<"U", "n", "k", "n", "o", "w", "n">>,
         url |->
             <<"h", "t", "t", "p", "s", ":", "/", "/", "j", "a", "m", "e",
               "s", "c", "l", "e", "a", "r", ".", "c", "o", "m", "/", "3",
               "-", "2", "-", "1", "/", "f", "e", "b", "r", "u", "a", "r",
               "y", "-", "1", "3", "-", "2", "0", "2", "0">>]
    >> @@
    File_2021_11_04 :>
    <<
        [text |-> <<"w">>,
         category |-> "question", index |-> 1,
         date |-> <<"2", "0", "2", "1", "-", "1", "1", "-", "0", "4">>,
         source |-> None, source_name |-> None,
         title |-> <<"U", " ", "V">>,
         url |->
             <<"h", "t", "t", "p", "s", ":", "/", "/", "j", "a", "m", "e",
               "s", "c", "l", "e", "a", "r", ".", "c", "o", "m", "/", "3",
               "-", "2", "-", "1", "/", "n", "o", "v", "e", "m", "b", "e",
               "r", "-", "4", "-", "2", "0", "2", "1">>]
    >>

\* the table a run on the given files is to leave
RECURSIVE ExpectedTable(_)
ExpectedTable(files) ==
    IF files = <<>> THEN <<>>
    ELSE ExpectedOfFile[Head(files)] \o ExpectedTable(Tail(files))

\* a row without its vector column
WithoutVector(row) == [f \in DOMAIN row \ {"vector"} |-> row[f]]

\* the persisted rows, without the vector column
PersistedChunks ==
    [i \in 1..Len(ValueOf(parquet_rows)) |->
        WithoutVector(ValueOf(parquet_rows)[i])]

\* C19: after any sequence of runs of text_chunks_for_embedding, the persisted
\* table holds exactly the chunks of the issues given to the most recent run
\* that completed, each with the title and the date-derived url of its own
\* issue; no row of an earlier run is left.
C19_TableOfLatestRun ==
    builder_pc = "materialized" =>
        /\ parquet_rows # None
        /\ [v |-> PersistedChunks] = [v |-> ExpectedTable(markdown_files)]

\* a run has replaced a table that an earlier run wrote and encoded_vectors
\* completed: the rows are those of the one file of the latest run
C19_Witness ==
    /\ builder_pc = "materialized"
    /\ vectorizer_pc = "materialized"
    /\ markdown_files = <<File_2021_11_04>>
    /\ parquet_rows # None
    /\ Len(ValueOf(parquet_rows)) = 1
    /\ ValueOf(parquet_rows)[1].vector = None
    /\ ValueOf(parquet_rows)[1].title = <<"U", " ", "V">>

-----------------------------------------------------------------------------
(* C20 *)

\* the rows either all have a vector or all lack one
VectorsUniform(rows) ==
    \/ \A i \in 1..Len(rows) : rows[i].vector = None
    \/ \A i \in 1..Len(rows) : rows[i].vector # None

\* a step in which the encoded_vectors run ends with an exception leaves the
\* file with the rows the run read
C20_FailingStep ==
    (vectorizer_pc = "read" /\ vectorizer_pc' = "raised") =>
        /\ parquet_rows' = parquet_rows
        /\ parquet_rows = Some(df)

\* C20: if the embedding call fails during a run of encoded_vectors, the run
\* is over and the persisted table is as it was before the run; no row is
\* ever persisted with a vector while other rows lack one.
C20_FailureLeavesTable ==
    /\ [][C20_FailingStep]_vars
    /\ [](parquet_rows # None => VectorsUniform(ValueOf(parquet_rows)))

\* a run of encoded_vectors on a table of two rows has failed: the table
\* still has its two rows, without vectors
C20_Witness ==
    /\ vectorizer_pc = "raised"
    /\ df = <<>>
    /\ parquet_rows # None
    /\ Len(ValueOf(parquet_rows)) = 2
    /\ \A i \in 1..2 : ValueOf(parquet_rows)[i].vector = None

-----------------------------------------------------------------------------
(* src/pipeline/store_assets.py: stored_vectors *)

\* the tables a completed run of text_chunks_for_embedding or of
\* encoded_vectors leaves in the parquet file: they are computed once
Tables ==
    {AllIssues(files) : files \in FileLists}
        \cup {WithVectors(AllIssues(files)) : files \in FileLists}

\* payload = row.to_dict(); payload.pop("vector", None)
Payload(row) == [f \in DOMAIN row \ {"vector"} |-> row[f]]

\* PointStruct(id=uuid.uuid4().hex, vector=vector, payload=payload): the id
\* is new with every point, so that no point ever takes the place of
\* another; the points of the collection are kept one by one, in a sequence
PointStruct(row) ==
    [vector |-> ValueOf(row.vector), payload |-> Payload(row)]

\* the list points after the loop over df.iterrows()
Points(rows) == [i \in 1..Len(rows) |-> PointStruct(rows[i])]

\* the collection is left as it is when there is one
KeepCollection(old) == IF old = None THEN Some(<<>>) ELSE old

\* lines 38-52: after either branch there is a collection without a point
recreate_collection(old) == Some(<<>>)

\* qdrant.upload_points: the points are added to those of the collection
upload_points(old, points) == Some(ValueOf(old) \o points)

\* no stored_vectors run is between its read and its upload
StoreResting == store_pc \in {"idle", "materialized", "raised"}

\* A run of one of the two table assets completes while stored_vectors is
\* not running: the parquet file holds its table.
TableWritten ==
    /\ StoreResting
    /\ \E table \in Tables : parquet_rows' = to_parquet(parquet_rows, table)
    /\ UNCHANGED <<serving, chunker, fetcher, agent, markdown_files, builder_pc,
                   vectorizer_pc, df, store>>

\* df = pd.read_parquet(parquet_file)
StoreRead ==
    /\ StoreResting
    /\ parquet_rows # None
    /\ store_df' = ValueOf(parquet_rows)
    /\ store_pc' = "read"
    /\ UNCHANGED <<serving, chunker, fetcher, agent, pipeline, collection>>

\* pd.read_parquet raises: there is no file
StoreReadFails ==
    /\ StoreResting
    /\ parquet_rows = None
    /\ store_df' = <<>>
    /\ store_pc' = "raised"
    /\ UNCHANGED <<serving, chunker, fetcher, agent, pipeline, collection>>

\* df.iloc[0]['vector'] has a length: the table has a row and its vectors
VectorShape(rows) == rows # <<>> /\ rows[1].vector # None

\* the log line of lines 25-27 is written
StoreLoaded ==
    /\ store_pc = "read"
    /\ VectorShape(store_df)
    /\ store_pc' = "loaded"
    /\ UNCHANGED <<serving, chunker, fetcher, agent, pipeline, store_df, collection>>

\* the log line raises: the table has no row, or no vector column
StoreLoadFails ==
    /\ store_pc = "read"
    /\ ~VectorShape(store_df)
    /\ store_df' = <<>>
    /\ store_pc' = "raised"
    /\ UNCHANGED <<serving, chunker, fetcher, agent, pipeline, collection>>

\* qdrant.get_collections() answers
QdrantReachable ==
    /\ store_pc = "loaded"
    /\ store_pc' = "reachable"
    /\ UNCHANGED <<serving, chunker, fetcher, agent, pipeline, store_df, collection>>

\* qdrant.get_collections() raises, and the run with it
QdrantUnreachable ==
    /\ store_pc = "loaded"
    /\ store_df' = <<>>
    /\ store_pc' = "raised"
    /\ UNCHANGED <<serving, chunker, fetcher, agent, pipeline, collection>>

\* lines 38-52: the collection is created, after it was deleted if it existed
Recreate ==
    /\ store_pc = "reachable"
    /\ collection' = recreate_collection(collection)
    /\ store_pc' = "recreated"
    /\ UNCHANGED <<serving, chunker, fetcher, agent, pipeline, store_df>>

\* one of the calls of lines 38-52 raises: collection_exists or
\* delete_collection (the collection is as it was), or create_collection
\* after the delete (there is no collection)
RecreateFails ==
    /\ store_pc = "reachable"
    /\ collection' \in {collection, None}
    /\ store_df' = <<>>
    /\ store_pc' = "raised"
    /\ UNCHANGED <<serving, chunker, fetcher, agent, pipeline>>

\* lines 54-79: the points are built and uploaded, the run completes
Upload ==
    /\ store_pc = "recreated"
    /\ collection' = upload_points(collection, Points(store_df))
    /\ store_df' = <<>>
    /\ store_pc' = "materialized"
    /\ UNCHANGED <<serving, chunker, fetcher, agent, pipeline>>

\* upload_points raises: the tables here have fewer rows than one batch of
\* 64, so that no point was uploaded
UploadFails ==
    /\ store_pc = "recreated"
    /\ store_df' = <<>>
    /\ store_pc' = "raised"
    /\ UNCHANGED <<serving, chunker, fetcher, agent, pipeline, collection>>

StoreNext ==
    \/ TableWritten
    \/ StoreRead
    \/ StoreReadFails
    \/ StoreLoaded
    \/ StoreLoadFails
    \/ QdrantReachable
    \/ QdrantUnreachable
    \/ Recreate
    \/ RecreateFails
    \/ Upload
    \/ UploadFails

\* the runs of stored_vectors, one at a time, between runs of the table
\* assets, while no search is served
StoreInit ==
    /\ Init
    /\ ~parquet_exists

StoreSpec == StoreInit /\ [][StoreNext]_vars

\* C21: when a run of stored_vectors completes, the collection holds exactly
\* one point per row of the table the run read, row by row: no point of an
\* earlier run remains and a re-run does not duplicate records.
C21_CompletingStep ==
    (store_pc = "recreated" /\ store_pc' = "materialized") =>
        /\ collection' # None
        /\ Len(ValueOf(collection')) = Len(store_df)
        /\ \A i \in 1..Len(store_df) :
              /\ ValueOf(collection')[i].payload = WithoutVector(store_df[i])
              /\ Some(ValueOf(collection')[i].vector) = store_df[i].vector

C21_OnePointPerRow == [][C21_CompletingStep]_vars

\* a run has completed over a table of two rows while the parquet file
\* already holds another table: the collection has two points
C21_Witness ==
    /\ store_pc = "materialized"
    /\ collection # None
    /\ Len(ValueOf(collection)) = 2
    /\ parquet_rows # None
    /\ Len(ValueOf(parquet_rows)) > 2

-----------------------------------------------------------------------------
(* src/pipeline/download_assets.py: downloaded_html_files;
   src/pipeline/utils.py: get_safe_filename, download_and_save *)

\* the largest number of urls a run is given
MaxUrls == 2

Url_2020_01_06 ==
    UrlBase \o
        <<"j", "a", "n", "u", "a", "r", "y", "-", "6", "-", "2", "0", "2", "0">>

Url_2020_02_13 ==
    UrlBase \o
        <<"f", "e", "b", "r", "u", "a", "r", "y", "-", "1", "3", "-", "2",
          "0", "2", "0">>

\* an url of the sitemap that ends with a slash
Url_2021_11_04 ==
    UrlBase \o
        <<"n", "o", "v", "e", "m", "b", "e", "r", "-", "4", "-", "2", "0",
          "2", "1", "/">>

\* the urls of issues, in the order of their dates
UrlsByDate == <<Url_2020_01_06, Url_2020_02_13, Url_2021_11_04>>

\* the lists new_newsletter_urls returns: urls of different dates, sorted by
\* date
UrlLists ==
    {urls \in UNION {[1..n -> 1..Len(UrlsByDate)] : n \in 0..MaxUrls} :
        \A i \in 1..Len(urls) - 1 : urls[i] < urls[i + 1]}

\* the urls a list of UrlLists stands for
UrlsOf(list) == [i \in 1..Len(list) |-> UrlsByDate[list[i]]]

\* the texts the site answers with
Page_ab == <<"a", "b">>
Page_c == <<"c">>
Pages == {Page_ab, Page_c}

\* RAW_HTML_DIR and the separator os.path.join puts after it
RawHtmlDir ==
    <<"d", "a", "t", "a", "/", "r", "a", "w", "/", "h", "t", "m", "l">>

HtmlSuffix == <<".", "h", "t", "m", "l">>

TmpSuffix == <<".", "t", "m", "p">>

\* hashlib.md5(url.encode()).hexdigest()[:6], as hashlib computes it
Md5Hex6(url) ==
    CASE url = Url_2020_01_06 -> <<"e", "a", "d", "0", "0", "9">>
      [] url = Url_2020_02_13 -> <<"3", "0", "b", "8", "5", "0">>
      [] url = Url_2021_11_04 -> <<"2", "4", "c", "c", "4", "7">>

\* url.strip("/")
StripSlashes(url) ==
    LET keep == {i \in 1..Len(url) : url[i] # "/"}
    IN  IF keep = {} THEN <<>> ELSE SubSeq(url, MinOf(keep), MaxOf(keep))

\* url.strip("/").split("/")[-1]
Slug(url) ==
    LET parts == SplitOn(StripSlashes(url), "/")
    IN  parts[Len(parts)]

\* f"{slug}_{url_hash}.html"
get_safe_filename(url) == Slug(url) \o <<"_">> \o Md5Hex6(url) \o HtmlSuffix

\* os.path.join(output_dir, filename)
final_path(url) == RawHtmlDir \o <<"/">> \o get_safe_filename(url)

\* the temporary file is the final file
TempIsFinal(final) == final

\* final_path + ".tmp"
temp_path(final) == final \o TmpSuffix

\* no file is ever seen
NeverExists(files, path) == files # files

\* os.path.exists(path)
exists(files, path) == path \in DOMAIN files

\* the directory once path holds content
WithFile(files, path, content) ==
    [p \in DOMAIN files \cup {path} |->
        IF p = path THEN content ELSE files[p]]

\* the directory once path is gone
WithoutFile(files, path) == [p \in DOMAIN files \ {path} |-> files[p]]

\* os.rename(src, dst): dst holds what src held, src is gone
Renamed(files, src, dst) ==
    WithoutFile(WithFile(files, dst, files[src]), src)

\* what is left of a text when the write stops before its end
ProperPrefixes(text) == {SubSeq(text, 1, n) : n \in 0..Len(text) - 1}

\* the url of the turn of the loop that is under way
url == new_newsletter_urls[url_no + 1]

\* no run of downloaded_html_files is under way
FetcherResting == fetch_pc \in {"idle", "materialized", "raised"}

\* the rest of the program, which no download touches
beside_fetcher == <<serving, chunker, pipeline, store, agent>>

\* downloaded_html_files is run with the urls of new_newsletter_urls
StartRun ==
    /\ FetcherResting
    /\ \E list \in UrlLists : new_newsletter_urls' = UrlsOf(list)
    /\ url_no' = 0
    /\ downloaded_count' = 0
    /\ skipped_count' = 0
    /\ response' = None
    /\ fetched' = None
    /\ io' = <<>>
    /\ fetch_pc' = "loop"
    /\ UNCHANGED <<beside_fetcher, raw_html>>

\* download_and_save finds its final file and returns
Skip ==
    /\ fetch_pc = "loop"
    /\ url_no < Len(new_newsletter_urls)
    /\ exists(raw_html, final_path(url))
    /\ fetched' = Some([path |-> final_path(url), was_downloaded |-> FALSE])
    /\ fetch_pc' = "returned"
    /\ UNCHANGED <<beside_fetcher, raw_html, new_newsletter_urls, url_no,
                   downloaded_count, skipped_count, response, io>>

\* download_and_save finds no final file
Miss ==
    /\ fetch_pc = "loop"
    /\ url_no < Len(new_newsletter_urls)
    /\ ~exists(raw_html, final_path(url))
    /\ fetch_pc' = "get"
    /\ UNCHANGED <<beside_fetcher, raw_html, new_newsletter_urls, url_no,
                   downloaded_count, skipped_count, response, fetched, io>>

\* requests.get answers and raise_for_status lets the answer through
Get ==
    /\ fetch_pc = "get"
    /\ \E page \in Pages : response' = Some(page)
    /\ io' = Append(io, [op |-> "get", url |-> url])
    /\ fetch_pc' = "open"
    /\ UNCHANGED <<beside_fetcher, raw_html, new_newsletter_urls, url_no,
                   downloaded_count, skipped_count, fetched>>

\* requests.get or raise_for_status raises
GetFails ==
    /\ fetch_pc = "get"
    /\ io' = Append(io, [op |-> "get", url |-> url])
    /\ fetch_pc' = "except"
    /\ UNCHANGED <<beside_fetcher, raw_html, new_newsletter_urls, url_no,
                   downloaded_count, skipped_count, response, fetched>>

\* open(temp_path, "w"): the temporary file is there, and empty
Open ==
    /\ fetch_pc = "open"
    /\ raw_html' = WithFile(raw_html, temp_path(final_path(url)), <<>>)
    /\ fetch_pc' = "write"
    /\ UNCHANGED <<beside_fetcher, new_newsletter_urls, url_no,
                   downloaded_count, skipped_count, response, fetched, io>>

\* open raises
OpenFails ==
    /\ fetch_pc = "open"
    /\ fetch_pc' = "except"
    /\ UNCHANGED <<beside_fetcher, raw_html, new_newsletter_urls, url_no,
                   downloaded_count, skipped_count, response, fetched, io>>

\* f.write(response.text) and the end of the with block
Write ==
    /\ fetch_pc = "write"
    /\ raw_html' = WithFile(raw_html, temp_path(final_path(url)),
                            ValueOf(response))
    /\ fetch_pc' = "rename"
    /\ UNCHANGED <<beside_fetcher, new_newsletter_urls, url_no,
                   downloaded_count, skipped_count, response, fetched, io>>

\* the write raises: the temporary file holds a part of the text
WriteFails ==
    /\ fetch_pc = "write"
    /\ \E part \in ProperPrefixes(ValueOf(response)) :
          raw_html' = WithFile(raw_html, temp_path(final_path(url)), part)
    /\ fetch_pc' = "except"
    /\ UNCHANGED <<beside_fetcher, new_newsletter_urls, url_no,
                   downloaded_count, skipped_count, response, fetched, io>>

\* os.rename(temp_path, final_path); return final_path, True
Rename ==
    /\ fetch_pc = "rename"
    /\ raw_html' = Renamed(raw_html, temp_path(final_path(url)),
                           final_path(url))
    /\ fetched' = Some([path |-> final_path(url), was_downloaded |-> TRUE])
    /\ response' = None
    /\ fetch_pc' = "returned"
    /\ UNCHANGED <<beside_fetcher, new_newsletter_urls, url_no,
                   downloaded_count, skipped_count, io>>

\* os.rename raises
RenameFails ==
    /\ fetch_pc = "rename"
    /\ fetch_pc' = "except"
    /\ UNCHANGED <<beside_fetcher, raw_html, new_newsletter_urls, url_no,
                   downloaded_count, skipped_count, response, fetched, io>>

\* the except block: the temporary file is removed when there is one, and
\* the exception goes up through downloaded_html_files, whose run is over
Except ==
    /\ fetch_pc = "except"
    /\ raw_html' = IF exists(raw_html, temp_path(final_path(url)))
                   THEN WithoutFile(raw_html, temp_path(final_path(url)))
                   ELSE raw_html
    /\ response' = None
    /\ fetched' = None
    /\ fetch_pc' = "raised"
    /\ UNCHANGED <<beside_fetcher, new_newsletter_urls, url_no,
                   downloaded_count, skipped_count, io>>

\* the loop body after a call that downloaded: the count, then the sleep
Downloaded ==
    /\ fetch_pc = "returned"
    /\ ValueOf(fetched).was_downloaded
    /\ downloaded_count' = downloaded_count + 1
    /\ io' = Append(io, [op |-> "sleep", url |-> url])
    /\ url_no' = url_no + 1
    /\ fetch_pc' = "loop"
    /\ UNCHANGED <<beside_fetcher, raw_html, new_newsletter_urls,
                   skipped_count, response, fetched>>

\* the loop body after a call that found its file
Skipped ==
    /\ fetch_pc = "returned"
    /\ ~ValueOf(fetched).was_downloaded
    /\ skipped_count' = skipped_count + 1
    /\ url_no' = url_no + 1
    /\ fetch_pc' = "loop"
    /\ UNCHANGED <<beside_fetcher, raw_html, new_newsletter_urls,
                   downloaded_count, response, fetched, io>>

\* the loop is over: the summary is logged
Summary ==
    /\ fetch_pc = "loop"
    /\ url_no = Len(new_newsletter_urls)
    /\ fetch_pc' = "materialized"
    /\ UNCHANGED <<beside_fetcher, raw_html, new_newsletter_urls, url_no,
                   downloaded_count, skipped_count, response, fetched, io>>

FetcherNext ==
    \/ StartRun
    \/ Skip
    \/ Miss
    \/ Get
    \/ GetFails
    \/ Open
    \/ OpenFails
    \/ Write
    \/ WriteFails
    \/ Rename
    \/ RenameFails
    \/ Except
    \/ Downloaded
    \/ Skipped
    \/ Summary

\* the runs of downloaded_html_files, one at a time, while nothing else runs
FetcherInit ==
    /\ Init
    /\ ~parquet_exists

FetcherSpec == FetcherInit /\ [][FetcherNext]_vars

\* the final paths of the urls, and their temporary paths
FinalPaths == {final_path(UrlsByDate[i]) : i \in 1..Len(UrlsByDate)}
TempPaths == {p \o TmpSuffix : p \in FinalPaths}

\* the turn of the loop that is under way calls download_and_save while the
\* final file of its url is there
CallOnCachedUrl ==
    /\ fetch_pc = "loop"
    /\ url_no < Len(new_newsletter_urls)
    /\ final_path(url) \in DOMAIN raw_html

C22_CachedCall ==
    CallOnCachedUrl =>
        /\ fetch_pc' = "returned"
        /\ fetched' =
              Some([path |-> final_path(url), was_downloaded |-> FALSE])
        /\ io' = io
        /\ raw_html' = raw_html

C22_FinalFilesStay ==
    \A p \in DOMAIN raw_html \cap FinalPaths :
        p \in DOMAIN raw_html' /\ raw_html'[p] = raw_html[p]

\* how many sleeps the run has made
SleepCount == Cardinality({i \in 1..Len(io) : io[i].op = "sleep"})

C22_Counts ==
    /\ \A i \in 1..Len(io) :
          io[i].op = "sleep" =>
              i > 1 /\ io[i - 1] = [op |-> "get", url |-> io[i].url]
    /\ fetch_pc \in {"loop", "materialized"} =>
          /\ downloaded_count + skipped_count = url_no
          /\ SleepCount = downloaded_count

\* C22: download_and_save is a cache: a call for an url whose final file
\* exists returns (path, False), makes no request and leaves the directory
\* as it is; a final file, once there, stays as it is; downloaded_html_files
\* sleeps only after a call that downloaded, and downloaded_count +
\* skipped_count is the number of urls the loop has been through.
C22_Cache ==
    /\ [][C22_CachedCall /\ C22_FinalFilesStay]_vars
    /\ []C22_Counts

\* a run over two urls is over: one was downloaded, the other was found on
\* disk
C22_Witness ==
    /\ fetch_pc = "materialized"
    /\ url_no = 2
    /\ downloaded_count = 1
    /\ skipped_count = 1
    /\ Len(io) = 2

C23_FinalIsComplete ==
    \A p \in DOMAIN raw_html \cap FinalPaths : raw_html[p] \in Pages

C23_NoTempAtRest ==
    FetcherResting => DOMAIN raw_html \cap TempPaths = {}

C23_RenameStep ==
    (fetch_pc = "rename" /\ fetch_pc' = "returned") =>
        /\ raw_html'[final_path(url)] = ValueOf(response)
        /\ temp_path(final_path(url)) \notin DOMAIN raw_html'

C23_FailingStep ==
    fetch_pc = "except" =>
        /\ fetch_pc' = "raised"
        /\ fetched' = None
        /\ final_path(url) \notin DOMAIN raw_html'
        /\ DOMAIN raw_html' \cap TempPaths = {}
        /\ C22_FinalFilesStay

\* C23: download_and_save writes atomically: in every state a final path
\* that exists holds a complete response text, the one of the download that
\* created it; when the request, the write or the rename fails, the final
\* path is not created, the temporary file is removed and the exception
\* reaches the caller.
C23_AtomicWrite ==
    /\ [](C23_FinalIsComplete /\ C23_NoTempAtRest)
    /\ [][C23_RenameStep /\ C23_FailingStep]_vars

\* the second download of a run has failed after the first went through:
\* the directory holds the first url's file and nothing else
C23_Witness ==
    /\ fetch_pc = "raised"
    /\ url_no = 1
    /\ Len(io) = 3
    /\ DOMAIN raw_html = {final_path(new_newsletter_urls[1])}

-----------------------------------------------------------------------------
(* src/chat.py: MCPAgent *)

\* the largest number of queries the agent is asked
MaxQueries == 2

\* the tool calls the model can ask for: two function calls, one whose
\* arguments are not JSON, and one that is not a function call
Call_a ==
    [id |-> "call_a", type |-> "function", name |-> "search_newsletter",
     arguments |-> "{}"]
Call_b ==
    [id |-> "call_b", type |-> "function", name |-> "search_newsletter",
     arguments |-> "{}"]
Call_bad ==
    [id |-> "call_c", type |-> "function", name |-> "search_newsletter",
     arguments |-> "{"]
Call_custom ==
    [id |-> "call_d", type |-> "custom", name |-> "search_newsletter",
     arguments |-> "{}"]

\* the lists of tool calls of a message of the model
ToolCallLists ==
    {<<>>, <<Call_a>>, <<Call_a, Call_b>>, <<Call_bad>>, <<Call_custom>>}

\* self.available_tools: the tools are cached once the session is there
available_tools ==
    IF session = None THEN <<>> ELSE <<"search_newsletter">>

\* response.choices[0].message.model_dump(): a text, or tool calls when
\* tools were given to the model
Responses ==
    {[role |-> "assistant", content |-> Some("text"), tool_calls |-> <<>>]}
        \cup IF available_tools = <<>> THEN {}
             ELSE {[role |-> "assistant", content |-> None,
                    tool_calls |-> calls_] :
                       calls_ \in ToolCallLists \ {<<>>}}

\* {"role": "user", "content": query}
UserMessage(text) == [role |-> "user", content |-> Some(text)]

\* {"role": "tool", "tool_call_id": ..., "name": ..., "content": ...}
ToolMessage(call, text) ==
    [role |-> "tool", tool_call_id |-> call.id, name |-> call.name,
     content |-> Some(text)]

\* content.content or ""
ContentOr(message) ==
    IF message.content = None THEN "" ELSE ValueOf(message.content)

\* json.loads(tool_call.function.arguments or "{}") returns
Loads(arguments) == arguments # "{"

\* the first tool call is there and is a function call
WantsTool(message) ==
    /\ Len(message.tool_calls) > 0
    /\ message.tool_calls[1].type = "function"

\* the messages that are queries
UserTurns == {i \in 1..Len(messages) : messages[i].role = "user"}

\* no call of the agent is under way
AgentResting == agent_pc \in {"idle", "returned", "raised"}

\* the rest of the program, which the agent does not touch
beside_agent == <<serving, chunker, pipeline, store, fetcher>>

\* connect_to_mcp_server: the session is opened and the tools are cached
Connect ==
    /\ agent_pc = "idle"
    /\ session = None
    /\ session' = Some("ClientSession")
    /\ UNCHANGED <<beside_agent, agent_pc, messages, tool_call, answer>>

\* __call__(query): the query is appended
Ask ==
    /\ AgentResting
    /\ Cardinality(UserTurns) < MaxQueries
    /\ messages' = Append(messages, UserMessage("query"))
    /\ tool_call' = None
    /\ answer' = None
    /\ agent_pc' = "first"
    /\ UNCHANGED <<beside_agent, session>>

\* the first _call_llm returns a message without a tool call to execute:
\* it is appended and its content returned
FirstAnswer ==
    /\ agent_pc = "first"
    /\ \E message \in Responses :
          /\ ~WantsTool(message)
          /\ messages' = Append(messages, message)
          /\ answer' = Some(ContentOr(message))
    /\ agent_pc' = "returned"
    /\ UNCHANGED <<beside_agent, session, tool_call>>

\* the first _call_llm returns a message whose first tool call is a
\* function call: the message is appended
FirstToolCall ==
    /\ agent_pc = "first"
    /\ \E message \in Responses :
          /\ WantsTool(message)
          /\ messages' = Append(messages, message)
          /\ tool_call' = Some(message.tool_calls[1])
    /\ agent_pc' = "tool"
    /\ UNCHANGED <<beside_agent, session, answer>>

\* _call_llm raises, the first time or the second: so does __call__
LlmFails ==
    /\ agent_pc \in {"first", "second"}
    /\ tool_call' = None
    /\ agent_pc' = "raised"
    /\ UNCHANGED <<beside_agent, session, messages, answer>>

\* json.loads raises on the arguments of the tool call: so does __call__
LoadsFails ==
    /\ agent_pc = "tool"
    /\ ~Loads(ValueOf(tool_call).arguments)
    /\ tool_call' = None
    /\ agent_pc' = "raised"
    /\ UNCHANGED <<beside_agent, session, messages, answer>>

\* _execute_tool: call_tool returns, the result is appended
ExecuteTool ==
    /\ agent_pc = "tool"
    /\ Loads(ValueOf(tool_call).arguments)
    /\ messages' = Append(messages, ToolMessage(ValueOf(tool_call), "result"))
    /\ agent_pc' = "second"
    /\ UNCHANGED <<beside_agent, session, tool_call, answer>>

\* _execute_tool: call_tool raises, the error text is appended
ExecuteToolFails ==
    /\ agent_pc = "tool"
    /\ Loads(ValueOf(tool_call).arguments)
    /\ messages' = Append(messages, ToolMessage(ValueOf(tool_call),
                                                "Error executing tool: e"))
    /\ agent_pc' = "second"
    /\ UNCHANGED <<beside_agent, session, tool_call, answer>>

\* the second _call_llm returns: its message is appended and its content
\* returned
SecondAnswer ==
    /\ agent_pc = "second"
    /\ \E message \in Responses :
          /\ messages' = Append(messages, message)
          /\ answer' = Some(ContentOr(message))
    /\ tool_call' = None
    /\ agent_pc' = "returned"
    /\ UNCHANGED <<beside_agent, session>>

AgentNext ==
    \/ Connect
    \/ Ask
    \/ FirstAnswer
    \/ FirstToolCall
    \/ LlmFails
    \/ LoadsFails
    \/ ExecuteTool
    \/ ExecuteToolFails
    \/ SecondAnswer

\* the queries of one chat, one at a time, while nothing else runs
AgentInit ==
    /\ Init
    /\ ~parquet_exists

AgentSpec == AgentInit /\ [][AgentNext]_vars

\* the message after message i that is the next assistant message, or the
\* end of the history
NextAssistant(i) ==
    LET later == {j \in i + 1..Len(messages) :
                     messages[j].role = "assistant"}
    IN  IF later = {} THEN Len(messages) + 1 ELSE MinOf(later)

\* the tool messages that answer the tool call id of assistant message i
\* before the next assistant message
AnswersTo(i, id) ==
    {j \in i + 1..NextAssistant(i) - 1 :
        messages[j].role = "tool" /\ messages[j].tool_call_id = id}

\* C24: once a call of the agent has returned, every tool call id of every
\* assistant message of the history is answered by exactly one tool message
\* with that id before the next assistant message.
C24_ToolCallsAnswered ==
    agent_pc = "returned" =>
        \A i \in 1..Len(messages) :
            messages[i].role = "assistant" =>
                \A k \in 1..Len(messages[i].tool_calls) :
                    Cardinality(AnswersTo(i, messages[i].tool_calls[k].id)) = 1

-----------------------------------------------------------------------------
(* C25 *)

\* the lines of a segment that carry an attribution
SourceLineNos(seg) ==
    {k \in 1..Len(SplitLines(seg)) : Contains(SplitLines(seg)[k], SourceLabel)}

\* a line with text that the clean-up of a quote leaves as it is
PlainLine(line) ==
    /\ line # <<>>
    /\ Strip(Replace(Replace(clean_links(line), <<"*", "*">>, <<>>),
                     <<" ", " ">>, <<" ">>)) = line

\* the text that follows the attribution of the segment is in the chunk
FollowingTextKept(c, seg) ==
    LET lines == SplitLines(seg)
        src == SourceLineNos(seg)
    IN  src # {} =>
            \A k \in MinOf(src) + 1..Len(lines) :
                (k \notin src /\ PlainLine(lines[k])) =>
                    Contains(c.text, lines[k])

\* an attribution on the first line of the segment is not in the chunk
FirstLineSourceRemoved(c, seg) ==
    1 \in SourceLineNos(seg) => ~Contains(c.text, SourceLabel)

C25_QuoteTurn ==
    AtSectionOf(QuotesMarker) =>
        \A i \in 1..MarkersNext :
            /\ FollowingTextKept(Appended(i),
                                 SegmentAfter(Cleaned(NextRaw), i))
            /\ FirstLineSourceRemoved(Appended(i),
                                      SegmentAfter(Cleaned(NextRaw), i))

\* C25: of a quote segment only the attribution line is removed: the text
\* that follows the *Source:* line is kept in the chunk text, and an
\* attribution on the first line of the segment is removed as well.
C25_OnlyAttributionLineRemoved == [][C25_QuoteTurn]_vars

-----------------------------------------------------------------------------
(* C26 *)

\* C26: for every limit a caller passes, limit <= 0 included, a search
\* response holds at most max(limit, 0) results, and its total_results is
\* the length of its results list.
C26_NeverMoreThanLimit ==
    ReturnedResponse =>
        /\ Len(ret.results) <= MaxOf({limit, 0})
        /\ ret.total_results = Len(ret.results)

=============================================================================
